---- MODULE Spec2Model ----
(***************************************************************************)
(* SEO audit engine: analyze_url (src/main.py) crawls one page, runs the   *)
(* Technical, On-Page, Performance and Security analyzers over the         *)
(* extracted page_data, derives the Mobile score and aggregates the five   *)
(* scores into overallScore.                                               *)
(*                                                                         *)
(* Encoding of Python values:                                              *)
(*   Optional[T]   a set with at most one element, None == {}              *)
(*   str           only what the code inspects of it (its length, its      *)
(*                 scheme, whether it contains "noindex")                  *)
(*   float         an exact binary64 value, kept as a fixed-point number   *)
(*                 of NL limbs of 16 bits with 64 fraction bits; every     *)
(*                 operation rounds to 53 significant bits, ties to even   *)
(*   dict          a record; a key the dict lacks is a field the record    *)
(*                 lacks                                                   *)
(***************************************************************************)
EXTENDS Integers, Sequences, FiniteSets, TLC

None == {}
Some(x) == {x}
Get(o) == CHOOSE x \in o : TRUE

Max(a, b) == IF a >= b THEN a ELSE b
Min(a, b) == IF a <= b THEN a ELSE b

(***************************************************************************)
(* binary64 arithmetic as Python's float performs it.                      *)
(***************************************************************************)
NL == 5
LB == 65536
MANT == 53

BigInt(n) == [i \in 1..NL |-> IF i = NL THEN n ELSE 0]

RECURSIVE MulLimbs(_, _, _, _)
MulLimbs(X, c, i, carry) ==
  IF i > NL THEN <<>>
  ELSE LET t == X[i] * c + carry
       IN  <<t % LB>> \o MulLimbs(X, c, i + 1, t \div LB)

BigMulSmall(X, c) == MulLimbs(X, c, 1, 0)

RECURSIVE AddLimbs(_, _, _, _)
AddLimbs(X, Y, i, carry) ==
  IF i > NL THEN <<>>
  ELSE LET t == X[i] + Y[i] + carry
       IN  <<t % LB>> \o AddLimbs(X, Y, i + 1, t \div LB)

BigAdd(X, Y) == AddLimbs(X, Y, 1, 0)

RECURSIVE DivLimbs(_, _, _, _)
DivLimbs(X, d, i, rem) ==
  IF i = 0 THEN [q |-> <<>>, r |-> rem]
  ELSE LET cur  == rem * LB + X[i]
           rest == DivLimbs(X, d, i - 1, cur % d)
       IN  [q |-> Append(rest.q, cur \div d), r |-> rest.r]

BigDivSmall(X, d) == DivLimbs(X, d, NL, 0)

RECURSIVE Bits(_)
Bits(n) == IF n = 0 THEN 0 ELSE 1 + Bits(n \div 2)

BitLen(X) ==
  LET nz == {i \in 1..NL : X[i] # 0}
  IN  IF nz = {} THEN 0
      ELSE LET top == CHOOSE i \in nz : \A j \in nz : j <= i
           IN  (top - 1) * 16 + Bits(X[top])

\* X rounded to MANT significant bits, ties to even; sticky says that bits
\* below the last limb were already dropped and were not all zero.
Round53(X, sticky) ==
  LET p == BitLen(X) - MANT
  IN  IF p <= 0 THEN X
      ELSE LET lo    == IF p <= 16 THEN X[1] % (2^p)
                        ELSE X[1] + LB * (X[2] % (2^(p - 16)))
               half  == 2^(p - 1)
               odd   == IF p < 16 THEN (X[1] \div (2^p)) % 2 = 1
                        ELSE (X[2] \div (2^(p - 16))) % 2 = 1
               up    == lo > half \/ (lo = half /\ (sticky \/ odd))
               clr   == [i \in 1..NL |->
                           IF i = 1 THEN (IF p >= 16 THEN 0 ELSE X[1] - (X[1] % (2^p)))
                           ELSE IF i = 2 /\ p > 16 THEN X[2] - (X[2] % (2^(p - 16)))
                           ELSE X[i]]
               ulp   == [i \in 1..NL |->
                           IF p < 16 THEN (IF i = 1 THEN 2^p ELSE 0)
                           ELSE (IF i = 2 THEN 2^(p - 16) ELSE 0)]
           IN  IF up THEN BigAdd(clr, ulp) ELSE clr

\* the float a decimal literal num/den denotes (correctly rounded)
FloatLiteral(num, den) ==
  LET d == BigDivSmall(BigInt(num), den)
  IN  Round53(d.q, d.r # 0)

\* int * float and float + float
FMul(n, X) == Round53(BigMulSmall(X, n), FALSE)
FAdd(X, Y) == Round53(BigAdd(X, Y), FALSE)

\* int(x): truncation
PyInt(X) == X[NL]

\* round(x): nearest integer, an exact binary half to the even neighbour
PyRound(X) ==
  LET above == X[4] > LB \div 2
               \/ (X[4] = LB \div 2 /\ (X[1] # 0 \/ X[2] # 0 \/ X[3] # 0))
      tie   == X[4] = LB \div 2 /\ X[1] = 0 /\ X[2] = 0 /\ X[3] = 0
  IN  IF above \/ (tie /\ X[NL] % 2 = 1) THEN X[NL] + 1 ELSE X[NL]

(***************************************************************************)
(* Findings and check results.  A finding keeps the keys the code gives    *)
(* it; a check result that passed carries no "issue" unless the code puts  *)
(* one there.                                                              *)
(***************************************************************************)
Issue(type, code, impact) == [type |-> type, code |-> code, impact |-> impact]
Passed == [passed |-> TRUE, deduction |-> 0]
Failed(issue, deduction) == [passed |-> FALSE, issue |-> issue, deduction |-> deduction]

\* robots.lower() contains "noindex"
NoindexValues == {"noindex", "NOINDEX", "NoIndex, nofollow"}

(***************************************************************************)
(* TechnicalSEOAnalyzer (src/analyzers/technical.py)                       *)
(***************************************************************************)
\* a canonical check that fails on a path mismatch
_check_canonical_strict(url, page_data) ==
  IF page_data.canonical = None
  THEN Failed(Issue("error", "missing_canonical", "high"), 15)
  ELSE IF Get(page_data.canonical).path # url.path
  THEN Failed(Issue("warning", "canonical_mismatch", "low"), 0)
  ELSE Passed

_check_canonical(url, page_data) ==
  IF page_data.canonical = None
  THEN Failed(Issue("error", "missing_canonical", "high"), 15)
  ELSE IF Get(page_data.canonical).path # url.path
  THEN [passed |-> TRUE, issue |-> Issue("warning", "canonical_mismatch", "low"),
        deduction |-> 0]
  ELSE Passed

_check_robots(page_data) ==
  IF page_data.robots_meta # None /\ Get(page_data.robots_meta) \in NoindexValues
  THEN Failed(Issue("warning", "noindex", "high"), 5)
  ELSE Passed

\* net.robots: the answer to GET {origin}/robots.txt, "error" when the request raises
_check_robots_txt(url, net) ==
  IF net.robots = "error"
  THEN Failed([type |-> "warning", code |-> "robots_txt_error", impact |-> "low"], 3)
  ELSE IF net.robots = "200" THEN Passed
  ELSE Failed(Issue("warning", "missing_robots_txt", "medium"), 5)

\* net.sitemap: the answers to the two sitemap URLs, in order; a request that
\* raises is skipped (continue).  net.sitemap_client = "error": the HTTP client
\* itself fails outside the per-URL try (line 190), reaching the outer except.
SitemapUrls == <<"/sitemap.xml", "/sitemap_index.xml">>

\* a sitemap check that gives up when the robots.txt request raised
_check_sitemap_after_robots(url, net) ==
  IF net.sitemap_client = "error"
  THEN [passed |-> FALSE, deduction |-> 3, issue |-> [type |-> "error"]]
  ELSE IF net.robots # "error" /\ \E i \in 1..Len(SitemapUrls) : net.sitemap[i] = "200xml"
  THEN Passed
  ELSE Failed(Issue("warning", "missing_sitemap", "medium"), 5)

_check_sitemap(url, net) ==
  IF net.sitemap_client = "error"
  THEN [passed |-> FALSE, deduction |-> 3, issue |-> [type |-> "error"]]
  ELSE IF \E i \in 1..Len(SitemapUrls) : net.sitemap[i] = "200xml"
  THEN Passed
  ELSE Failed(Issue("warning", "missing_sitemap", "medium"), 5)

_check_https_technical(url) ==
  IF url.scheme # "https"
  THEN Failed(Issue("error", "no_https", "high"), 20)
  ELSE Passed

_check_redirects(page_data) ==
  IF Len(page_data.redirects) > 2
  THEN Failed(Issue("warning", "redirect_chain", "medium"), 10)
  ELSE Passed

_check_status_code(page_data) ==
  IF page_data.status_code # 0 /\ page_data.status_code >= 400
  THEN Failed([type |-> "error", code |-> "error_status", impact |-> "high"], 30)
  ELSE Passed

_check_language(page_data) ==
  IF page_data.lang = None \/ Get(page_data.lang) = ""
  THEN Failed(Issue("warning", "missing_lang", "low"), 3)
  ELSE Passed

_check_schema(page_data) ==
  IF ~page_data.has_schema
  THEN Failed(Issue("recommendation", "no_structured_data", "medium"), 5)
  ELSE Passed

\* a block that reports and deducts whatever the check returned, passed or not
RecordAlways(acc, name, r) ==
  [issues |-> IF "issue" \in DOMAIN r THEN Append(acc.issues, r.issue) ELSE acc.issues,
   checks |-> acc.checks @@ (name :> r.passed),
   score  |-> acc.score - r.deduction]

\* one "checks[name] = r.passed; if not passed: append, deduct" block of analyze
Record(acc, name, r) ==
  [issues |-> IF ~r.passed THEN Append(acc.issues, r.issue) ELSE acc.issues,
   checks |-> acc.checks @@ (name :> r.passed),
   score  |-> IF ~r.passed THEN acc.score - r.deduction ELSE acc.score]

\* the same block of the checks that return a list of issues (issues.extend)
RecordAll(acc, name, r) ==
  [issues |-> IF ~r.passed THEN acc.issues \o r.issues ELSE acc.issues,
   checks |-> acc.checks @@ (name :> r.passed),
   score  |-> IF ~r.passed THEN acc.score - r.deduction ELSE acc.score]

Start == [issues |-> <<>>, checks |-> <<>>, score |-> 100]

\* a report that returns the running score as it is
ReportUnclamped(acc) == [score |-> acc.score, issues |-> acc.issues, checks |-> acc.checks]

\* the returned report: "score": max(0, score)
Report(acc) == [score |-> Max(0, acc.score), issues |-> acc.issues, checks |-> acc.checks]

TechnicalAnalyze(url, page_data, net) ==
  LET a1 == Record(Start, "canonical", _check_canonical(url, page_data))
      a2 == Record(a1, "robotsMeta", _check_robots(page_data))
      a3 == Record(a2, "robotsTxt", _check_robots_txt(url, net))
      a4 == Record(a3, "sitemap", _check_sitemap(url, net))
      a5 == Record(a4, "https", _check_https_technical(url))
      a6 == Record(a5, "redirectChain", _check_redirects(page_data))
      a7 == Record(a6, "statusCode", _check_status_code(page_data))
      a8 == Record(a7, "language", _check_language(page_data))
      a9 == Record(a8, "structuredData", _check_schema(page_data))
  IN  Report(a9)

(***************************************************************************)
(* OnPageSEOAnalyzer (src/analyzers/onpage.py).  title and description are *)
(* Optional lengths: the checks read nothing of the text but len().        *)
(***************************************************************************)
\* a title check whose upper limit excludes 60 itself
_check_title_below_60(title) ==
  IF title = None \/ Get(title) = 0
  THEN Failed(Issue("error", "missing_title", "high"), 20)
  ELSE IF Get(title) < 30
  THEN Failed(Issue("warning", "title_too_short", "medium"), 5)
  ELSE IF Get(title) >= 60
  THEN Failed(Issue("warning", "title_too_long", "low"), 3)
  ELSE Passed

_check_title(title) ==
  IF title = None \/ Get(title) = 0
  THEN Failed(Issue("error", "missing_title", "high"), 20)
  ELSE IF Get(title) < 30
  THEN Failed(Issue("warning", "title_too_short", "medium"), 5)
  ELSE IF Get(title) > 60
  THEN Failed(Issue("warning", "title_too_long", "low"), 3)
  ELSE Passed

_check_meta_description(description) ==
  IF description = None \/ Get(description) = 0
  THEN Failed(Issue("error", "missing_meta_description", "high"), 15)
  ELSE IF Get(description) < 70
  THEN Failed(Issue("warning", "meta_description_too_short", "medium"), 5)
  ELSE IF Get(description) > 160
  THEN Failed(Issue("warning", "meta_description_too_long", "low"), 3)
  ELSE Passed

\* headings[level]: the number of headings of that level
_check_h1(headings) ==
  IF headings.h1 = 0
  THEN Failed(Issue("error", "missing_h1", "high"), 15)
  ELSE IF headings.h1 > 1
  THEN Failed(Issue("warning", "multiple_h1", "medium"), 5)
  ELSE Passed

_check_heading_hierarchy(headings) ==
  LET has_h1 == headings.h1 > 0
      has_h2 == headings.h2 > 0
      has_h3 == headings.h3 > 0
  IN  IF ~has_h1 /\ (has_h2 \/ has_h3)
      THEN Failed(Issue("warning", "broken_heading_hierarchy", "medium"), 5)
      ELSE Passed

\* percentage = missing_count / len(images) * 100 > 50, in integers
_check_images(images) ==
  IF Len(images) = 0 THEN Passed
  ELSE LET missing_count == Cardinality({i \in 1..Len(images) : ~images[i].has_alt})
       IN  IF missing_count > 0
           THEN IF missing_count * 100 > 50 * Len(images)
                THEN Failed(Issue("error", "many_images_missing_alt", "high"), 15)
                ELSE Failed(Issue("warning", "images_missing_alt", "medium"), 5)
           ELSE Passed

_check_content(word_count) ==
  IF word_count < 300
  THEN Failed(Issue("warning", "thin_content", "medium"), 10)
  ELSE Passed

_check_internal_links(internal_links) ==
  IF Len(internal_links) < 2
  THEN Failed(Issue("warning", "few_internal_links", "medium"), 5)
  ELSE Passed

\* og_tags: the keys of the dict
_check_og_tags(og_tags) ==
  LET required == {"title", "description", "image"}
      missing  == {tag \in required : tag \notin og_tags}
  IN  IF missing # {}
      THEN Failed(Issue("recommendation", "missing_og_tags", "low"), 3)
      ELSE Passed

OnPageAnalyze(page_data) ==
  LET a1 == Record(Start, "title", _check_title(page_data.title))
      a2 == Record(a1, "metaDescription", _check_meta_description(page_data.meta_description))
      a3 == Record(a2, "h1", _check_h1(page_data.headings))
      a4 == Record(a3, "headingHierarchy", _check_heading_hierarchy(page_data.headings))
      a5 == Record(a4, "imageAlt", _check_images(page_data.images))
      a6 == Record(a5, "contentLength", _check_content(page_data.word_count))
      a7 == Record(a6, "internalLinks", _check_internal_links(page_data.internal_links))
      a8 == Record(a7, "openGraph", _check_og_tags(page_data.og_tags))
  IN  Report(a8)

(***************************************************************************)
(* SecurityAnalyzer (src/analyzers/security.py)                            *)
(***************************************************************************)
_check_https(url) ==
  IF url.scheme # "https"
  THEN Failed(Issue("error", "no_https", "high"), 25)
  ELSE Passed

\* k.lower() of the header names the model uses
Lower(k) ==
  CASE k = "X-Content-Type-Options"    -> "x-content-type-options"
    [] k = "X-Frame-Options"           -> "x-frame-options"
    [] k = "Strict-Transport-Security" -> "strict-transport-security"
    [] k = "Content-Security-Policy"   -> "content-security-policy"
    [] OTHER -> k

\* a header check whose last branch assigns its deduction instead of adding it
_check_security_headers_assign(headers) ==
  LET headers_lower == {Lower(k) : k \in headers}
      i1 == IF "x-content-type-options" \notin headers_lower
            THEN <<Issue("warning", "missing_x_content_type", "low")>> ELSE <<>>
      d1 == IF "x-content-type-options" \notin headers_lower THEN 2 ELSE 0
      i2 == IF "x-frame-options" \notin headers_lower
               /\ "content-security-policy" \notin headers_lower
            THEN Append(i1, Issue("warning", "missing_x_frame_options", "medium")) ELSE i1
      d2 == IF "x-frame-options" \notin headers_lower
               /\ "content-security-policy" \notin headers_lower
            THEN d1 + 3 ELSE d1
      i3 == IF "strict-transport-security" \notin headers_lower
            THEN Append(i2, Issue("warning", "missing_hsts", "medium")) ELSE i2
      d3 == IF "strict-transport-security" \notin headers_lower THEN d2 + 5 ELSE d2
      i4 == IF "content-security-policy" \notin headers_lower
            THEN Append(i3, Issue("recommendation", "missing_csp", "medium")) ELSE i3
      d4 == IF "content-security-policy" \notin headers_lower THEN 3 ELSE d3
  IN  [passed |-> Len(i4) = 0, issues |-> i4, deduction |-> d4]

\* a header check that looks the names up as the response spelled them
_check_security_headers_exact(headers) ==
  LET headers_lower == headers
      i1 == IF "x-content-type-options" \notin headers_lower
            THEN <<Issue("warning", "missing_x_content_type", "low")>> ELSE <<>>
      d1 == IF "x-content-type-options" \notin headers_lower THEN 2 ELSE 0
      i2 == IF "x-frame-options" \notin headers_lower
               /\ "content-security-policy" \notin headers_lower
            THEN Append(i1, Issue("warning", "missing_x_frame_options", "medium")) ELSE i1
      d2 == IF "x-frame-options" \notin headers_lower
               /\ "content-security-policy" \notin headers_lower
            THEN d1 + 3 ELSE d1
      i3 == IF "strict-transport-security" \notin headers_lower
            THEN Append(i2, Issue("warning", "missing_hsts", "medium")) ELSE i2
      d3 == IF "strict-transport-security" \notin headers_lower THEN d2 + 5 ELSE d2
      i4 == IF "content-security-policy" \notin headers_lower
            THEN Append(i3, Issue("recommendation", "missing_csp", "medium")) ELSE i3
      d4 == IF "content-security-policy" \notin headers_lower THEN d3 + 3 ELSE d3
  IN  [passed |-> Len(i4) = 0, issues |-> i4, deduction |-> d4]

\* headers: the set of header names of the response
_check_security_headers(headers) ==
  LET headers_lower == {Lower(k) : k \in headers}
      i1 == IF "x-content-type-options" \notin headers_lower
            THEN <<Issue("warning", "missing_x_content_type", "low")>> ELSE <<>>
      d1 == IF "x-content-type-options" \notin headers_lower THEN 2 ELSE 0
      i2 == IF "x-frame-options" \notin headers_lower
               /\ "content-security-policy" \notin headers_lower
            THEN Append(i1, Issue("warning", "missing_x_frame_options", "medium")) ELSE i1
      d2 == IF "x-frame-options" \notin headers_lower
               /\ "content-security-policy" \notin headers_lower
            THEN d1 + 3 ELSE d1
      i3 == IF "strict-transport-security" \notin headers_lower
            THEN Append(i2, Issue("warning", "missing_hsts", "medium")) ELSE i2
      d3 == IF "strict-transport-security" \notin headers_lower THEN d2 + 5 ELSE d2
      i4 == IF "content-security-policy" \notin headers_lower
            THEN Append(i3, Issue("recommendation", "missing_csp", "medium")) ELSE i3
      d4 == IF "content-security-policy" \notin headers_lower THEN d3 + 3 ELSE d3
  IN  [passed |-> Len(i4) = 0, issues |-> i4, deduction |-> d4]

\* a resource's src/href is kept as its scheme prefix ("http://", "https://", "//", "")
HttpSrc(resources) == Cardinality({i \in 1..Len(resources) : resources[i].src = "http://"})
HttpHref(resources) == Cardinality({i \in 1..Len(resources) : resources[i].href = "http://"})

\* a mixed-content check that deducts per resource
_check_mixed_content_per_resource(page_data) ==
  IF page_data.url.scheme # "https" THEN Passed
  ELSE LET total_mixed == HttpSrc(page_data.images) + HttpSrc(page_data.scripts)
                          + HttpHref(page_data.stylesheets)
       IN  IF total_mixed > 0
           THEN Failed([type |-> "error", code |-> "mixed_content", impact |-> "high",
                        total |-> total_mixed], 15 * total_mixed)
           ELSE Passed

_check_mixed_content(page_data) ==
  IF page_data.url.scheme # "https" THEN Passed
  ELSE LET total_mixed == HttpSrc(page_data.images) + HttpSrc(page_data.scripts)
                          + HttpHref(page_data.stylesheets)
       IN  IF total_mixed > 0
           THEN Failed([type |-> "error", code |-> "mixed_content", impact |-> "high",
                        total |-> total_mixed], 15)
           ELSE Passed

sensitive_paths == <<"/.env", "/.git/config", "/wp-config.php.bak", "/phpinfo.php",
                     "/.htaccess", "/server-status">>

\* net.sensitive[i]: the answer to the GET of sensitive_paths[i] ("error": the request
\* raises and the loop continues); net.sensitive_client = "error": the client cannot
\* be created, the outer except passes with nothing collected.
RECURSIVE SensitiveLoop(_, _, _)
SensitiveLoop(net, i, acc) ==
  IF i > Len(sensitive_paths) THEN acc
  ELSE SensitiveLoop(net, i + 1,
         IF net.sensitive[i] = "200"
         THEN [issues |-> Append(acc.issues,
                            [type |-> "error", code |-> "exposed_sensitive_file",
                             impact |-> "high", path |-> sensitive_paths[i]]),
               deduction |-> acc.deduction + 10]
         ELSE acc)

\* a check that deducts 10 once, however many paths are exposed
_check_sensitive_paths_once(url, net) ==
  LET r == IF net.sensitive_client = "error" THEN [issues |-> <<>>, deduction |-> 0]
           ELSE SensitiveLoop(net, 1, [issues |-> <<>>, deduction |-> 0])
  IN  [passed |-> Len(r.issues) = 0, issues |-> r.issues,
       deduction |-> IF Len(r.issues) > 0 THEN 10 ELSE 0]

_check_sensitive_paths(url, net) ==
  LET r == IF net.sensitive_client = "error" THEN [issues |-> <<>>, deduction |-> 0]
           ELSE SensitiveLoop(net, 1, [issues |-> <<>>, deduction |-> 0])
  IN  [passed |-> Len(r.issues) = 0, issues |-> r.issues, deduction |-> r.deduction]

SecurityAnalyze(url, page_data, net) ==
  LET a1 == Record(Start, "https", _check_https(url))
      a2 == RecordAll(a1, "securityHeaders", _check_security_headers(page_data.headers))
      a3 == Record(a2, "noMixedContent", _check_mixed_content(page_data))
      a4 == RecordAll(a3, "noSensitivePaths", _check_sensitive_paths(url, net))
  IN  Report(a4)

(***************************************************************************)
(* PerformanceAnalyzer (src/analyzers/performance.py).  net.metrics is the *)
(* PageSpeed answer: outcome "ok" (status 200), "non200" or "error" (the   *)
(* request raises); data holds the Lighthouse values the code reads, each  *)
(* Optional (the key may be missing).  Decimal values are kept in          *)
(* thousandths; JsonNull stands for a JSON null.                           *)
(***************************************************************************)
JsonNull == -1
ScoreDenominator == 1000

PerfChecks == {"lcp", "fcp", "cls", "imageOptimization", "bundleSize", "lazyLoading"}

_get_fallback_analysis(url) ==
  [score  |-> 50,
   issues |-> <<Issue("info", "pagespeed_unavailable", "low")>>,
   checks |-> [c \in PerfChecks |-> None]]

\* int((categories.performance.score or 0) * 100)
performance_score(data) ==
  IF data.score = None \/ Get(data.score) = JsonNull \/ Get(data.score) = 0
  THEN 0
  ELSE PyInt(FMul(100, FloatLiteral(Get(data.score), ScoreDenominator)))

\* a comparison of None with a number raises TypeError inside the try block
Raises(data) ==
  \/ data.images # None /\ Get(data.images) = JsonNull
  \/ data.lazy # None /\ Get(data.lazy) = JsonNull

PerformanceOk(data) ==
  LET slow_lcp == data.lcp # None /\ Get(data.lcp) > 2500
      high_cls == data.cls # None /\ Get(data.cls) > 100
      slow_fcp == data.fcp # None /\ Get(data.fcp) > 1800
      unopt    == (IF data.images = None THEN 1000 ELSE Get(data.images)) < 900
      large    == (IF data.bytes = None THEN 0 ELSE Get(data.bytes)) > 2000000
      lazy     == (IF data.lazy = None THEN 0 ELSE Get(data.lazy)) >= 900
      i1 == IF slow_lcp THEN <<Issue("error", "slow_lcp", "high")>> ELSE <<>>
      i2 == IF high_cls THEN Append(i1, Issue("warning", "high_cls", "medium")) ELSE i1
      i3 == IF slow_fcp THEN Append(i2, Issue("warning", "slow_fcp", "medium")) ELSE i2
      i4 == IF unopt THEN Append(i3, Issue("warning", "unoptimized_images", "medium")) ELSE i3
      i5 == IF large THEN Append(i4, Issue("warning", "large_bundle", "medium")) ELSE i4
  IN  [score  |-> performance_score(data),
       issues |-> i5,
       checks |-> [c \in PerfChecks |->
                     CASE c = "lcp" -> Some(~slow_lcp)
                       [] c = "cls" -> Some(~high_cls)
                       [] c = "fcp" -> Some(~slow_fcp)
                       [] c = "imageOptimization" -> Some(~unopt)
                       [] c = "bundleSize" -> Some(~large)
                       [] c = "lazyLoading" -> Some(lazy)]]

\* an analysis that reads the body of the answer without looking at its status
PerformanceAnalyzeAnyStatus(url, net) ==
  IF ~net.api_key THEN _get_fallback_analysis(url)
  ELSE IF net.metrics.outcome = "error" THEN _get_fallback_analysis(url)
  ELSE IF Raises(net.metrics.data) THEN _get_fallback_analysis(url)
  ELSE PerformanceOk(net.metrics.data)

PerformanceAnalyze(url, net) ==
  IF ~net.api_key THEN _get_fallback_analysis(url)
  ELSE IF net.metrics.outcome = "error" THEN _get_fallback_analysis(url)
  ELSE IF net.metrics.outcome # "ok" THEN _get_fallback_analysis(url)
  ELSE IF Raises(net.metrics.data) THEN _get_fallback_analysis(url)
  ELSE PerformanceOk(net.metrics.data)

(***************************************************************************)
(* calculate_mobile_score and calculate_overall_score (src/main.py)        *)
(***************************************************************************)
\* page_data.get(key, default)
GetOr(d, key, default) == IF key \in DOMAIN d THEN d[key] ELSE default

\* a Mobile score that takes 5 off for a Performance score below 50
calculate_mobile_score_slow_pages(page_data, performance) ==
  LET no_viewport   == ~GetOr(page_data, "viewport_meta", FALSE)
      small_buttons == GetOr(page_data, "small_touch_targets", 0)
      small_text    == GetOr(page_data, "small_text_count", 0) > 5
      hscroll       == GetOr(page_data, "horizontal_scroll", FALSE)
      i1 == IF no_viewport THEN <<[type |-> "error", impact |-> "high"]>> ELSE <<>>
      s0 == IF performance.score < 50 THEN 95 ELSE 100
      s1 == IF no_viewport THEN s0 - 20 ELSE s0
      i2 == IF small_buttons > 0 THEN Append(i1, [type |-> "warning", impact |-> "medium"]) ELSE i1
      s2 == IF small_buttons > 0 THEN s1 - Min(small_buttons * 2, 15) ELSE s1
      i3 == IF small_text THEN Append(i2, [type |-> "warning", impact |-> "medium"]) ELSE i2
      s3 == IF small_text THEN s2 - 10 ELSE s2
      i4 == IF hscroll THEN Append(i3, [type |-> "error", impact |-> "high"]) ELSE i3
      s4 == IF hscroll THEN s3 - 15 ELSE s3
  IN  [score  |-> Max(0, s4),
       issues |-> i4,
       checks |-> [viewportMeta |-> GetOr(page_data, "viewport_meta", FALSE),
                   touchTargets |-> small_buttons = 0,
                   readableText |-> ~small_text,
                   noHorizontalScroll |-> ~hscroll]]

calculate_mobile_score(page_data, performance) ==
  LET no_viewport   == ~GetOr(page_data, "viewport_meta", FALSE)
      small_buttons == GetOr(page_data, "small_touch_targets", 0)
      small_text    == GetOr(page_data, "small_text_count", 0) > 5
      hscroll       == GetOr(page_data, "horizontal_scroll", FALSE)
      i1 == IF no_viewport THEN <<[type |-> "error", impact |-> "high"]>> ELSE <<>>
      s1 == IF no_viewport THEN 100 - 20 ELSE 100
      i2 == IF small_buttons > 0 THEN Append(i1, [type |-> "warning", impact |-> "medium"]) ELSE i1
      s2 == IF small_buttons > 0 THEN s1 - Min(small_buttons * 2, 15) ELSE s1
      i3 == IF small_text THEN Append(i2, [type |-> "warning", impact |-> "medium"]) ELSE i2
      s3 == IF small_text THEN s2 - 10 ELSE s2
      i4 == IF hscroll THEN Append(i3, [type |-> "error", impact |-> "high"]) ELSE i3
      s4 == IF hscroll THEN s3 - 15 ELSE s3
  IN  [score  |-> Max(0, s4),
       issues |-> i4,
       checks |-> [viewportMeta |-> GetOr(page_data, "viewport_meta", FALSE),
                   touchTargets |-> small_buttons = 0,
                   readableText |-> ~small_text,
                   noHorizontalScroll |-> ~hscroll]]

\* weights that do not sum to one
weights_unnormalised ==
  [technical   |-> FloatLiteral(25, 100),
   onpage      |-> FloatLiteral(25, 100),
   performance |-> FloatLiteral(25, 100),
   security    |-> FloatLiteral(15, 100),
   mobile      |-> FloatLiteral(15, 100)]

\* the weights dict: the floats the literals 0.25, 0.10 and 0.15 denote
weights == [technical   |-> FloatLiteral(25, 100),
            onpage      |-> FloatLiteral(25, 100),
            performance |-> FloatLiteral(25, 100),
            security    |-> FloatLiteral(10, 100),
            mobile      |-> FloatLiteral(15, 100)]

calculate_overall_score(technical, onpage, performance, security, mobile) ==
  LET score == FAdd(FAdd(FAdd(FAdd(FMul(technical, weights.technical),
                                   FMul(onpage, weights.onpage)),
                              FMul(performance, weights.performance)),
                         FMul(security, weights.security)),
                    FMul(mobile, weights.mobile))
  IN  PyRound(score)

(***************************************************************************)
(* The audited site and the network: what the page and the ancillary       *)
(* endpoints answer during one audit.                                      *)
(***************************************************************************)
MaxRedirects == 3
MaxImages == 3
MaxLinks == 2
MaxHeadings == 2
MaxTitleLength == 62
MaxTouchTargets == 8

RECURSIVE SeqsUpTo(_, _)
SeqsUpTo(S, n) ==
  IF n = 0 THEN {<<>>}
  ELSE LET shorter == SeqsUpTo(S, n - 1)
       IN  shorter \cup {Append(q, x) : q \in {r \in shorter : Len(r) = n - 1}, x \in S}

Hops(n) == [i \in 1..n |-> "hop"]
Links(n) == [i \in 1..n |-> [url |-> "/page"]]
Image(src, has_alt) == [src |-> src, has_alt |-> has_alt]

SecurityHeaders == {"x-content-type-options", "x-frame-options",
                    "strict-transport-security", "content-security-policy"}
SecurityHeadersMixedCase == {"X-Content-Type-Options", "X-Frame-Options",
                             "Strict-Transport-Security", "Content-Security-Policy"}

\* a page every check passes on, and one most checks fail on (requested over
\* http and redirected to https)
GoodSite ==
  [url |-> [scheme |-> "https", path |-> "/"], status_code |-> 200,
   headers |-> SecurityHeaders, redirects |-> <<>>,
   title |-> Some(45), meta_description |-> Some(120),
   canonical |-> Some([path |-> "/"]), robots_meta |-> None, viewport_meta |-> TRUE,
   og_tags |-> {"title", "description", "image"},
   headings |-> [h1 |-> 1, h2 |-> 1, h3 |-> 0],
   internal_links |-> Links(2), images |-> <<>>, word_count |-> 300,
   scripts |-> <<>>, stylesheets |-> <<>>, has_schema |-> TRUE, lang |-> Some("en")]

BadSite ==
  [url |-> [scheme |-> "https", path |-> "/"], status_code |-> 404,
   headers |-> {}, redirects |-> Hops(3),
   title |-> None, meta_description |-> None,
   canonical |-> None, robots_meta |-> Some("noindex"), viewport_meta |-> FALSE,
   og_tags |-> {},
   headings |-> [h1 |-> 0, h2 |-> 1, h3 |-> 0],
   internal_links |-> <<>>, images |-> <<Image("http://", FALSE)>>, word_count |-> 0,
   scripts |-> <<>>, stylesheets |-> <<>>, has_schema |-> FALSE, lang |-> None]

GoodData == [score |-> Some(900), lcp |-> Some(2500), cls |-> Some(100), fcp |-> Some(1800),
             images |-> Some(1000), bytes |-> Some(2000000), lazy |-> Some(1000)]
BadData  == [score |-> Some(290), lcp |-> Some(2501), cls |-> Some(101), fcp |-> Some(1801),
             images |-> Some(890), bytes |-> Some(2000001), lazy |-> Some(890)]

GoodNet ==
  [fetch |-> "ok", robots |-> "200", sitemap_client |-> "ok",
   sitemap |-> <<"200xml", "200xml">>,
   sensitive_client |-> "ok", sensitive |-> [i \in 1..Len(sensitive_paths) |-> "404"],
   api_key |-> TRUE, metrics |-> [outcome |-> "ok", data |-> GoodData]]

BadNet ==
  [fetch |-> "ok", robots |-> "404", sitemap_client |-> "ok",
   sitemap |-> <<"404", "404">>,
   sensitive_client |-> "ok", sensitive |-> [i \in 1..Len(sensitive_paths) |-> "200"],
   api_key |-> TRUE, metrics |-> [outcome |-> "ok", data |-> BadData]]

Schemes == {"https", "http"}
Good == [url |-> [scheme |-> "https", path |-> "/"], site |-> GoodSite, net |-> GoodNet]
Bad  == [url |-> [scheme |-> "http", path |-> "/"], site |-> BadSite, net |-> BadNet]
Bases == {Good, Bad}

FetchOutcomes == {"ok", "timeout", "connect_error", "tls_error", "other_error"}
RobotsOutcomes == {"200", "404", "error"}
SitemapOutcomes == {"200xml", "200html", "404", "error"}
SensitiveOutcomes == {"200", "301", "error"}
MetricsOutcomes == {"ok", "non200", "error"}

(***************************************************************************)
(* The audits the model runs: each family varies the inputs of one group   *)
(* of checks over all their cases, on the page where everything else       *)
(* passes and on the page where everything else fails.                     *)
(***************************************************************************)
FetchCases ==
  {[b EXCEPT !.net.fetch = f, !.net.api_key = k] :
     b \in Bases, f \in FetchOutcomes, k \in BOOLEAN}

TechnicalPages ==
  {[b EXCEPT !.url.scheme = s, !.site.canonical = c, !.site.robots_meta = r,
             !.site.redirects = Hops(n), !.site.status_code = st,
             !.site.lang = l, !.site.has_schema = h] :
     b \in Bases, s \in Schemes,
     c \in {None, Some([path |-> "/"]), Some([path |-> "/other"])},
     r \in {None, Some("index, follow"), Some("noindex"), Some("NOINDEX")},
     n \in 0..MaxRedirects, st \in {200, 399, 400},
     l \in {None, Some(""), Some("en")}, h \in BOOLEAN}

TechnicalProbes ==
  {[b EXCEPT !.net.robots = r, !.net.sitemap = <<s1, s2>>, !.net.sitemap_client = c] :
     b \in Bases, r \in RobotsOutcomes, s1 \in SitemapOutcomes, s2 \in SitemapOutcomes,
     c \in {"ok", "error"}}

TextLengths(lo, hi) == {None, Some(0), Some(1), Some(lo - 1), Some(lo), Some(hi), Some(hi + 1)}

OnPageMeta ==
  {[b EXCEPT !.site.title = t, !.site.meta_description = d, !.site.og_tags = og] :
     b \in Bases, t \in TextLengths(30, 60), d \in TextLengths(70, 160),
     og \in SUBSET {"title", "description", "image"}}

\* every title length up to MaxTitleLength
TitleLengths ==
  {[b EXCEPT !.site.title = t] :
     b \in Bases, t \in {None} \cup {Some(n) : n \in 0..MaxTitleLength}}

OnPageStructure ==
  {[b EXCEPT !.site.headings = [h1 |-> h1, h2 |-> h2, h3 |-> h3], !.site.images = im,
             !.site.word_count = w, !.site.internal_links = Links(k)] :
     b \in Bases, h1 \in 0..MaxHeadings, h2 \in 0..1, h3 \in 0..1,
     im \in SeqsUpTo({Image("https://", TRUE), Image("https://", FALSE)}, MaxImages),
     w \in {0, 299, 300}, k \in 0..MaxLinks}

SecurityHeaderPages ==
  {[b EXCEPT !.url.scheme = s, !.site.headers = h] :
     b \in Bases, s \in Schemes,
     h \in (SUBSET SecurityHeaders) \cup (SUBSET SecurityHeadersMixedCase)}

SecurityResources ==
  {[b EXCEPT !.url.scheme = s, !.site.url.scheme = f, !.site.images = im,
             !.site.scripts = sc, !.site.stylesheets = st] :
     b \in Bases, s \in Schemes, f \in Schemes,
     im \in SeqsUpTo({Image("https://", TRUE), Image("http://", TRUE)}, MaxImages),
     sc \in SeqsUpTo({[src |-> "https://"], [src |-> "http://"]}, 1),
     st \in SeqsUpTo({[href |-> "https://"], [href |-> "http://"]}, 1)}

SecurityProbes ==
  {[b EXCEPT !.url.scheme = s, !.net.sensitive = o, !.net.sensitive_client = c] :
     b \in Bases, s \in Schemes,
     o \in [1..Len(sensitive_paths) -> SensitiveOutcomes], c \in {"ok", "error"}}

MetricsOutcomeCases ==
  {[b EXCEPT !.net.api_key = k, !.net.metrics.outcome = o] :
     b \in Bases, k \in BOOLEAN, o \in MetricsOutcomes}

MetricsScores ==
  {[b EXCEPT !.net.metrics.data.score = sc] :
     b \in Bases, sc \in {None, Some(JsonNull)} \cup {Some(n) : n \in 0..ScoreDenominator}}

MetricsAudits ==
  {[b EXCEPT !.net.metrics.data =
       [score |-> @.score, lcp |-> lcp, cls |-> cls, fcp |-> fcp,
        images |-> im, bytes |-> by, lazy |-> lz]] :
     b \in Bases,
     lcp \in {None, Some(2500), Some(2501)}, cls \in {None, Some(100), Some(101)},
     fcp \in {None, Some(1800), Some(1801)},
     im \in {None, Some(JsonNull), Some(890), Some(900)},
     by \in {None, Some(2000000), Some(2000001)},
     lz \in {None, Some(JsonNull), Some(890), Some(900)}}

\* failures of several probes in the same audit
ProbeFailures ==
  {[b EXCEPT !.net.robots = r, !.net.sitemap = sm.answers, !.net.sitemap_client = sm.client,
             !.net.sensitive = sp.answers, !.net.sensitive_client = sp.client,
             !.net.api_key = k, !.net.metrics.outcome = m] :
     b \in Bases, r \in {"200", "error"},
     sm \in {[client |-> "ok", answers |-> <<"200xml", "200xml">>],
             [client |-> "ok", answers |-> <<"error", "200xml">>],
             [client |-> "ok", answers |-> <<"error", "error">>],
             [client |-> "error", answers |-> <<"200xml", "200xml">>]},
     sp \in {[client |-> "ok", answers |-> [i \in 1..Len(sensitive_paths) |-> "404"]],
             [client |-> "ok", answers |-> [i \in 1..Len(sensitive_paths) |-> "error"]],
             [client |-> "ok",
              answers |-> [i \in 1..Len(sensitive_paths) |-> IF i = 1 THEN "error" ELSE "200"]],
             [client |-> "error", answers |-> [i \in 1..Len(sensitive_paths) |-> "404"]]},
     k \in BOOLEAN, m \in MetricsOutcomes}

\* the crawler never sets the three mobile signals; calculate_mobile_score reads
\* them with defaults, so both pages without and with them are audited
MobilePages ==
  {[b EXCEPT !.site.viewport_meta = v] : b \in Bases, v \in BOOLEAN}
  \cup
  {[b EXCEPT !.site = [small_touch_targets |-> n, small_text_count |-> t,
                       horizontal_scroll |-> h, viewport_meta |-> v] @@ b.site] :
     b \in Bases, v \in BOOLEAN, n \in 0..MaxTouchTargets, t \in {0, 5, 6}, h \in BOOLEAN}

(***************************************************************************)
(* analyze_url (src/main.py): one audit, one await after the other.        *)
(***************************************************************************)
VARIABLES
  pc,                   \* the await analyze_url is at
  url,                  \* the requested URL
  site, net,            \* what the page and the endpoints answer
  sent,                 \* the requests made so far, in order
  soup,                 \* Optional: the parse tree crawl is extracting from
  page_data,            \* Optional: what crawl returned
  technical_results, onpage_results, performance_results, security_results,
  mobile_score, overall_score,
  response              \* Optional: the answer of the handler

vars == <<pc, url, site, net, sent, soup, page_data, technical_results, onpage_results,
          performance_results, security_results, mobile_score, overall_score, response>>

Setup(s) ==
  /\ url = s.url
  /\ site = s.site
  /\ net = s.net
  /\ pc = "crawl"
  /\ sent = <<>>
  /\ soup = None
  /\ page_data = None
  /\ technical_results = None
  /\ onpage_results = None
  /\ performance_results = None
  /\ security_results = None
  /\ mobile_score = None
  /\ overall_score = None
  /\ response = None

Init ==
  \/ \E s \in FetchCases : Setup(s)
  \/ \E s \in TechnicalPages : Setup(s)
  \/ \E s \in TechnicalProbes : Setup(s)
  \/ \E s \in OnPageMeta : Setup(s)
  \/ \E s \in OnPageStructure : Setup(s)
  \/ \E s \in SecurityHeaderPages : Setup(s)
  \/ \E s \in SecurityResources : Setup(s)
  \/ \E s \in SecurityProbes : Setup(s)
  \/ \E s \in MetricsOutcomeCases : Setup(s)
  \/ \E s \in MetricsScores : Setup(s)
  \/ \E s \in MetricsAudits : Setup(s)
  \/ \E s \in MobilePages : Setup(s)
  \/ \E s \in ProbeFailures : Setup(s)
  \/ \E s \in TitleLengths : Setup(s)

\* str(e) of the exception crawl catches; a timeout is reported as "timeout"
ErrorString(outcome) == outcome

\* a crawl that hands back a page whatever the request did
crawl_unchecked(u, st, nt) == st

\* Crawler.crawl: one GET; the page model on success, {"error", "url"} otherwise
crawl(u, st, nt) ==
  IF nt.fetch = "ok" THEN st
  ELSE [error |-> ErrorString(nt.fetch), url |-> u]

\* the requests each step makes
\* a robots.txt probe that tries a second time when the request raised
RobotsRequestsRetried(nt) ==
  IF nt.robots = "error" THEN <<"/robots.txt", "/robots.txt">> ELSE <<"/robots.txt">>

RobotsRequests(nt) == <<"/robots.txt">>
SitemapRequests(nt) ==
  IF nt.sitemap_client = "error" THEN <<>>
  ELSE IF nt.sitemap[1] = "200xml" THEN <<SitemapUrls[1]>>
  ELSE SitemapUrls
SensitiveRequests(nt) == IF nt.sensitive_client = "error" THEN <<>> ELSE sensitive_paths
MetricsRequests(nt) == IF nt.api_key THEN <<"pagespeed">> ELSE <<>>

CrawlOk ==
  /\ pc = "crawl"
  /\ "error" \notin DOMAIN crawl(url, site, net)
  /\ page_data' = Some(crawl(url, site, net))
  /\ sent' = Append(sent, "page")
  /\ pc' = "technical"
  /\ UNCHANGED <<url, site, net, soup, technical_results, onpage_results, performance_results,
                 security_results, mobile_score, overall_score, response>>

\* "error" in page_data: HTTPException(400), re-raised by the handler
CrawlFail ==
  /\ pc = "crawl"
  /\ "error" \in DOMAIN crawl(url, site, net)
  /\ page_data' = Some(crawl(url, site, net))
  /\ sent' = Append(sent, "page")
  /\ response' = Some([status_code |-> 400, detail |-> crawl(url, site, net).error])
  /\ pc' = "failed"
  /\ UNCHANGED <<url, site, net, soup, technical_results, onpage_results, performance_results,
                 security_results, mobile_score, overall_score>>

AnalyzeTechnical ==
  /\ pc = "technical"
  /\ technical_results' = Some(TechnicalAnalyze(url, Get(page_data), net))
  /\ sent' = sent \o RobotsRequests(net) \o SitemapRequests(net)
  /\ pc' = "onpage"
  /\ UNCHANGED <<url, site, net, soup, page_data, onpage_results, performance_results,
                 security_results, mobile_score, overall_score, response>>

AnalyzeOnPage ==
  /\ pc = "onpage"
  /\ onpage_results' = Some(OnPageAnalyze(Get(page_data)))
  /\ pc' = "performance"
  /\ UNCHANGED <<url, site, net, soup, sent, page_data, technical_results, performance_results,
                 security_results, mobile_score, overall_score, response>>

AnalyzePerformance ==
  /\ pc = "performance"
  /\ performance_results' = Some(PerformanceAnalyze(url, net))
  /\ sent' = sent \o MetricsRequests(net)
  /\ pc' = "security"
  /\ UNCHANGED <<url, site, net, soup, page_data, technical_results, onpage_results,
                 security_results, mobile_score, overall_score, response>>

AnalyzeSecurity ==
  /\ pc = "security"
  /\ security_results' = Some(SecurityAnalyze(url, Get(page_data), net))
  /\ sent' = sent \o SensitiveRequests(net)
  /\ pc' = "mobile"
  /\ UNCHANGED <<url, site, net, soup, page_data, technical_results, onpage_results,
                 performance_results, mobile_score, overall_score, response>>

CalculateMobile ==
  /\ pc = "mobile"
  /\ mobile_score' = Some(calculate_mobile_score(Get(page_data), Get(performance_results)))
  /\ pc' = "overall"
  /\ UNCHANGED <<url, site, net, soup, sent, page_data, technical_results, onpage_results,
                 performance_results, security_results, overall_score, response>>

\* an aggregation that does not wait for the Mobile scoring
CalculateOverallBeforeMobile ==
  /\ pc = "mobile"
  /\ overall_score' = Some(calculate_overall_score(
                             Get(technical_results).score, Get(onpage_results).score,
                             Get(performance_results).score, Get(security_results).score,
                             100))
  /\ pc' = "return"
  /\ UNCHANGED <<url, site, net, soup, sent, page_data, technical_results, onpage_results,
                 performance_results, security_results, mobile_score, response>>

CalculateOverall ==
  /\ pc = "overall"
  /\ overall_score' = Some(calculate_overall_score(
                             Get(technical_results).score, Get(onpage_results).score,
                             Get(performance_results).score, Get(security_results).score,
                             Get(mobile_score).score))
  /\ pc' = "return"
  /\ UNCHANGED <<url, site, net, soup, sent, page_data, technical_results, onpage_results,
                 performance_results, security_results, mobile_score, response>>

Return ==
  /\ pc = "return"
  /\ response' = Some([status_code |-> 200,
                       body |-> [url |-> url,
                                 technical |-> Get(technical_results),
                                 onPage |-> Get(onpage_results),
                                 performance |-> Get(performance_results),
                                 security |-> Get(security_results),
                                 mobile |-> Get(mobile_score),
                                 overallScore |-> Get(overall_score)]])
  /\ pc' = "done"
  /\ UNCHANGED <<url, site, net, soup, sent, page_data, technical_results, onpage_results,
                 performance_results, security_results, mobile_score, overall_score>>

Next ==
  \/ CrawlOk
  \/ CrawlFail
  \/ AnalyzeTechnical
  \/ AnalyzeOnPage
  \/ AnalyzePerformance
  \/ AnalyzeSecurity
  \/ CalculateMobile
  \/ CalculateOverall
  \/ Return

Spec == Init /\ [][Next]_vars

(***************************************************************************)
(* Properties                                                              *)
(***************************************************************************)
Reports4 == <<technical_results, onpage_results, performance_results, security_results>>

\* C1: every score an analyzer or the Mobile scoring reports is an integer in
\* 0..100, whatever the page and whatever the probes answered.
C1_ScoresInRange ==
  /\ \A i \in 1..4 : \A r \in Reports4[i] : r.score \in 0..100
  /\ \A r \in mobile_score : r.score \in 0..100

\* C1 witness: an audit finished whose Security deductions exceed 100 (the
\* clamp acts) after the robots.txt request raised, with a Performance score
\* computed from the provider's answer (int(0.29 * 100) is 28).
C1_Witness ==
  /\ pc = "done"
  /\ Get(page_data).headers = {} /\ Len(Get(security_results).issues) = 12
  /\ Get(security_results).score = 0
  /\ net.robots = "error"
  /\ Get(performance_results).score = 28

\* C2: once the page fetch has failed no analyzer, Mobile scoring or aggregation
\* has run or will run, no probe is sent, and the answer is the 400 failure
\* carrying the error.
C2_FetchFailureStops ==
  (net.fetch # "ok" /\ pc # "crawl") =>
    /\ pc = "failed"
    /\ ~ENABLED Next
    /\ technical_results = None /\ onpage_results = None
    /\ performance_results = None /\ security_results = None
    /\ mobile_score = None /\ overall_score = None
    /\ sent = <<"page">>
    /\ response = Some([status_code |-> 400, detail |-> net.fetch])

C2_Witness == pc = "failed" /\ net.fetch = "timeout" /\ response # None

FallbackReport(r) ==
  /\ r.score = 50
  /\ \A c \in PerfChecks : r.checks[c] = None
  /\ DOMAIN r.checks = PerfChecks
  /\ Len(r.issues) = 1
  /\ r.issues[1].type = "info"

MetricsUnavailable == ~net.api_key \/ net.metrics.outcome \in {"error", "non200"}

\* C10: with the metrics provider unavailable (no credential, the call raises,
\* or a non-200 answer) the Performance report is score 50, all six checks null,
\* exactly one finding, of type info.
C10_FallbackReport ==
  \A r \in performance_results : MetricsUnavailable => FallbackReport(r)

C10_Witness ==
  /\ pc = "done"
  /\ net.api_key /\ net.metrics.outcome = "non200"
  /\ Get(performance_results).score = 50

(***************************************************************************)
(* The check lists of the three folding analyzers, as (name, result) pairs *)
(* in execution order.                                                     *)
(***************************************************************************)
Check(name, r) == [name |-> name, r |-> r]

TechnicalChecks(u, pd, nt) ==
  <<Check("canonical", _check_canonical(u, pd)),
    Check("robotsMeta", _check_robots(pd)),
    Check("robotsTxt", _check_robots_txt(u, nt)),
    Check("sitemap", _check_sitemap(u, nt)),
    Check("https", _check_https_technical(u)),
    Check("redirectChain", _check_redirects(pd)),
    Check("statusCode", _check_status_code(pd)),
    Check("language", _check_language(pd)),
    Check("structuredData", _check_schema(pd))>>

OnPageChecks(pd) ==
  <<Check("title", _check_title(pd.title)),
    Check("metaDescription", _check_meta_description(pd.meta_description)),
    Check("h1", _check_h1(pd.headings)),
    Check("headingHierarchy", _check_heading_hierarchy(pd.headings)),
    Check("imageAlt", _check_images(pd.images)),
    Check("contentLength", _check_content(pd.word_count)),
    Check("internalLinks", _check_internal_links(pd.internal_links)),
    Check("openGraph", _check_og_tags(pd.og_tags))>>

SecurityChecks(u, pd, nt) ==
  <<Check("https", _check_https(u)),
    Check("securityHeaders", _check_security_headers(pd.headers)),
    Check("noMixedContent", _check_mixed_content(pd)),
    Check("noSensitivePaths", _check_sensitive_paths(u, nt))>>

\* the finding(s) a check result carries
Findings(r) ==
  IF "issues" \in DOMAIN r THEN r.issues
  ELSE IF "issue" \in DOMAIN r THEN <<r.issue>>
  ELSE <<>>

RECURSIVE FailedFindings(_, _)
FailedFindings(cs, i) ==
  IF i > Len(cs) THEN <<>>
  ELSE (IF cs[i].r.passed THEN <<>> ELSE Findings(cs[i].r)) \o FailedFindings(cs, i + 1)

RECURSIVE FailedDeductions(_, _)
FailedDeductions(cs, i) ==
  IF i > Len(cs) THEN 0
  ELSE (IF cs[i].r.passed THEN 0 ELSE cs[i].r.deduction) + FailedDeductions(cs, i + 1)

IsFold(r, cs) ==
  /\ DOMAIN r.checks = {cs[i].name : i \in 1..Len(cs)}
  /\ \A i \in 1..Len(cs) : r.checks[cs[i].name] = cs[i].r.passed
  /\ \A i \in 1..Len(cs) : ~cs[i].r.passed => Len(Findings(cs[i].r)) > 0
  /\ r.issues = FailedFindings(cs, 1)
  /\ r.score = Max(0, 100 - FailedDeductions(cs, 1))

\* C5: the Technical, On-Page and Security reports are the fold of their check
\* lists: checks[name] is each check's passed value, the findings are those of
\* the checks that did not pass, in execution order, and the score is
\* max(0, 100 - the sum of the deductions of the checks that did not pass).
C5_ReportIsFold ==
  /\ \A r \in technical_results : IsFold(r, TechnicalChecks(url, Get(page_data), net))
  /\ \A r \in onpage_results : IsFold(r, OnPageChecks(Get(page_data)))
  /\ \A r \in security_results : IsFold(r, SecurityChecks(url, Get(page_data), net))

\* C5 witness: a finished audit with a check that passed yet returned a finding
\* (canonical mismatch) next to checks that failed.
C5_Witness ==
  /\ pc = "done"
  /\ Get(page_data).canonical = Some([path |-> "/other"])
  /\ Get(technical_results).checks["canonical"]
  /\ Get(technical_results).score < 100
  /\ Len(Get(security_results).issues) > 1

TechnicalCodes == {"missing_canonical", "canonical_mismatch", "noindex", "missing_robots_txt",
                   "robots_txt_error", "missing_sitemap", "no_https", "redirect_chain",
                   "error_status", "missing_lang", "no_structured_data"}
OnPageCodes == {"missing_title", "title_too_short", "title_too_long",
                "missing_meta_description", "meta_description_too_short",
                "meta_description_too_long", "missing_h1", "multiple_h1",
                "broken_heading_hierarchy", "many_images_missing_alt", "images_missing_alt",
                "thin_content", "few_internal_links", "missing_og_tags"}
PerformanceCodes == {"slow_lcp", "high_cls", "slow_fcp", "unoptimized_images", "large_bundle",
                     "pagespeed_unavailable"}
SecurityCodes == {"no_https", "missing_x_content_type", "missing_x_frame_options",
                  "missing_hsts", "missing_csp", "mixed_content", "exposed_sensitive_file"}

CodesWithin(report, codes) ==
  \A i \in 1..Len(report.issues) :
    "code" \in DOMAIN report.issues[i] /\ report.issues[i].code \in codes

\* C6: every finding of a Technical, On-Page, Performance or Security report
\* carries a code, and the code is one of that analyzer's fixed set.
C6_FindingsCarryCodes ==
  /\ \A r \in technical_results : CodesWithin(r, TechnicalCodes)
  /\ \A r \in onpage_results : CodesWithin(r, OnPageCodes)
  /\ \A r \in performance_results : CodesWithin(r, PerformanceCodes)
  /\ \A r \in security_results : CodesWithin(r, SecurityCodes)

\* no sitemap request was answered
SitemapProbeErrored ==
  \/ net.sitemap_client = "error"
  \/ net.sitemap[1] = "error" /\ net.sitemap[2] = "error"

SensitiveProbeErrored ==
  \/ net.sensitive_client = "error"
  \/ \E i \in 1..Len(sensitive_paths) : net.sensitive[i] = "error"

\* C4: a check whose probe errored is recorded failed (false) or not evaluated
\* (null), never passed (true).
C4_ErroredProbeNeverPasses ==
  /\ \A r \in technical_results :
       /\ net.robots = "error" => ~r.checks["robotsTxt"]
       /\ SitemapProbeErrored => ~r.checks["sitemap"]
  /\ \A r \in security_results : SensitiveProbeErrored => ~r.checks["noSensitivePaths"]
  /\ \A r \in performance_results :
       (net.api_key /\ net.metrics.outcome = "error") =>
         \A c \in PerfChecks : r.checks[c] \in {None, Some(FALSE)}

\* n / d rounded to the nearest integer, an exact half to the even neighbour
RoundHalfEven(n, d) ==
  LET q == n \div d
      r == n % d
  IN  IF 2 * r > d \/ (2 * r = d /\ q % 2 = 1) THEN q + 1 ELSE q

WeightedMean(t, o, p, s, m) == RoundHalfEven(25 * t + 25 * o + 25 * p + 10 * s + 15 * m, 100)

\* C8: overallScore is (25*technical + 25*onPage + 25*performance + 10*security
\* + 15*mobile) / 100 rounded to the nearest integer, an exact half to the even
\* neighbour, and so lies in 0..100.
C8_OverallIsRoundedMean ==
  \A v \in overall_score :
    /\ v = WeightedMean(Get(technical_results).score, Get(onpage_results).score,
                        Get(performance_results).score, Get(security_results).score,
                        Get(mobile_score).score)
    /\ v \in 0..100

(***************************************************************************)
(* The aggregation alone: calculate_overall_score applied to five scores   *)
(* drawn from 0..100 (all uniform inputs, and every security/mobile pair   *)
(* next to three technical/on-page/performance triples).                   *)
(***************************************************************************)
MaxScore == 100

ScoreOnly(v) == [score |-> v, issues |-> <<>>, checks |-> <<>>]

ScoreInputs ==
  {<<v, v, v, v, v>> : v \in 0..MaxScore}
  \cup {<<x[1], x[2], x[3], s, m>> :
          x \in {<<0, 0, 0>>, <<100, 100, 100>>, <<85, 72, 50>>},
          s \in 0..MaxScore, m \in 0..MaxScore}

InitAggregate ==
  \E x \in ScoreInputs :
    /\ url = Good.url
    /\ site = Good.site
    /\ net = Good.net
    /\ pc = "overall"
    /\ sent = <<>>
    /\ soup = None
    /\ page_data = Some(Good.site)
    /\ technical_results = Some(ScoreOnly(x[1]))
    /\ onpage_results = Some(ScoreOnly(x[2]))
    /\ performance_results = Some(ScoreOnly(x[3]))
    /\ security_results = Some(ScoreOnly(x[4]))
    /\ mobile_score = Some(ScoreOnly(x[5]))
    /\ overall_score = None
    /\ response = None

NextAggregate ==
  \/ CalculateOverall
  \/ Return

SpecAggregate == InitAggregate /\ [][NextAggregate]_vars

Uniform(v) ==
  /\ Get(technical_results).score = v /\ Get(onpage_results).score = v
  /\ Get(performance_results).score = v /\ Get(security_results).score = v
  /\ Get(mobile_score).score = v

\* C9: five equal component scores v aggregate to exactly v, for every v in 0..100.
C9_UniformReproduces ==
  \A o \in overall_score : \A v \in 0..MaxScore : Uniform(v) => o = v

C9_Witness == pc = "done" /\ Uniform(80) /\ Get(response).body.overallScore = 80

(***************************************************************************)
(* Probe failures: the same audit with one failed probe answered instead.  *)
(***************************************************************************)
\* the networks that differ from nt by one probe that failed in nt and is
\* answered here, tagged with the check that owns the probe
Answered(nt) ==
  {[owner |-> "robotsTxt", net |-> [nt EXCEPT !.robots = o]] :
     o \in IF nt.robots = "error" THEN {"200", "404"} ELSE {}}
  \cup
  {[owner |-> "sitemap", net |-> [nt EXCEPT !.sitemap_client = "ok"]] :
     o \in IF nt.sitemap_client = "error" THEN {"ok"} ELSE {}}
  \cup
  {[owner |-> "sitemap", net |-> [nt EXCEPT !.sitemap[i] = o]] :
     i \in {j \in 1..Len(SitemapUrls) : nt.sitemap[j] = "error"},
     o \in {"200xml", "404"}}
  \cup
  {[owner |-> "noSensitivePaths", net |-> [nt EXCEPT !.sensitive_client = "ok"]] :
     o \in IF nt.sensitive_client = "error" THEN {"ok"} ELSE {}}
  \cup
  {[owner |-> "noSensitivePaths", net |-> [nt EXCEPT !.sensitive[i] = o]] :
     i \in {j \in 1..Len(sensitive_paths) : nt.sensitive[j] = "error"},
     o \in {"200", "404"}}
  \cup
  {[owner |-> "performance", net |-> [nt EXCEPT !.metrics.outcome = o]] :
     o \in IF nt.api_key /\ nt.metrics.outcome \in {"error", "non200"} THEN {"ok"} ELSE {}}

\* the check results of two runs agree (passed, findings, deduction) on every
\* check but the one named owner
SameButOwner(cs1, cs2, owner) ==
  /\ Len(cs1) = Len(cs2)
  /\ \A i \in 1..Len(cs1) : cs1[i].name # owner => cs1[i] = cs2[i]

\* the awaits of analyze_url between a successful fetch and the return, in order
Pending == <<"technical", "onpage", "performance", "security", "mobile", "overall", "return">>

\* the results analyze_url holds, in the order it computes them
Computed == <<technical_results, onpage_results, performance_results, security_results,
              mobile_score, overall_score, response>>

\* C3: after a successful page fetch the audit is never aborted, whatever the
\* probes did: it is at the fetch, at one of the steps that follow (with every
\* earlier result computed), or it has answered 200 with the AuditResult; and
\* against the run where a failed probe is answered, every check but the probe's
\* owner has the same passed value, findings and deduction.
C3_ProbeFailureIsLocal ==
  net.fetch = "ok" =>
    /\ pc = "crawl" \/ pc = "done" \/ \E k \in 1..Len(Pending) : pc = Pending[k]
    /\ \A k \in 1..Len(Pending) :
         pc = Pending[k] => \A j \in 1..Len(Computed) : (Computed[j] # None) <=> (j < k)
    /\ pc = "done" =>
         /\ Get(response).status_code = 200
         /\ Get(response).body.technical = Get(technical_results)
         /\ Get(response).body.security = Get(security_results)
         /\ Get(response).body.performance = Get(performance_results)
         /\ Get(response).body.overallScore \in 0..100
         /\ \A a \in Answered(net) :
              LET pd == Get(page_data)
              IN  /\ SameButOwner(TechnicalChecks(url, pd, net),
                                  TechnicalChecks(url, pd, a.net), a.owner)
                  /\ SameButOwner(SecurityChecks(url, pd, net),
                                  SecurityChecks(url, pd, a.net), a.owner)
                  /\ a.owner # "performance" =>
                       PerformanceAnalyze(url, a.net) = Get(performance_results)
                  /\ calculate_mobile_score(pd, PerformanceAnalyze(url, a.net))
                       = Get(mobile_score)

\* C3 witness: an audit that finished with a 200 answer although the
\* robots.txt, sitemap, sensitive-path and metrics probes all failed.
C3_Witness ==
  /\ pc = "done"
  /\ Get(response).status_code = 200
  /\ net.robots = "error" /\ net.sitemap = <<"error", "error">>
  /\ \A i \in 1..Len(sensitive_paths) : net.sensitive[i] = "error"
  /\ net.api_key /\ net.metrics.outcome = "error"
  /\ {a.owner : a \in Answered(net)} = {"robotsTxt", "sitemap", "noSensitivePaths", "performance"}

(***************************************************************************)
(* Monotonic deductions: the same audit of a page with one field changed.  *)
(***************************************************************************)
\* the pages that differ from pd in one field, changed towards a violation
Worse(pd) ==
  {[pd EXCEPT !.canonical = None], [pd EXCEPT !.robots_meta = Some("noindex")],
   [pd EXCEPT !.redirects = Hops(MaxRedirects)], [pd EXCEPT !.status_code = 404],
   [pd EXCEPT !.lang = None], [pd EXCEPT !.has_schema = FALSE],
   [pd EXCEPT !.word_count = 299], [pd EXCEPT !.internal_links = Links(1)],
   [pd EXCEPT !.images = Append(@, Image("https://", FALSE))],
   [pd EXCEPT !.images = Append(@, Image("http://", TRUE))],
   [pd EXCEPT !.scripts = Append(@, [src |-> "http://"])]}
  \cup {[pd EXCEPT !.title = t] : t \in {None, Some(29), Some(61)}}
  \cup {[pd EXCEPT !.meta_description = d] : d \in {None, Some(69), Some(161)}}
  \cup {[pd EXCEPT !.headings.h1 = n] : n \in {0, 2}}
  \cup {[pd EXCEPT !.og_tags = @ \ {t}] : t \in pd.og_tags}
  \cup {[pd EXCEPT !.headers = @ \ {h}] : h \in pd.headers}

\* the violated conditions a report shows: the codes of its findings
Violated(report) ==
  {IF "code" \in DOMAIN report.issues[i] THEN report.issues[i].code ELSE "uncoded" :
     i \in 1..Len(report.issues)}

OneMoreViolated(r1, r2) ==
  \E c \in Violated(r2) \ Violated(r1) : Violated(r2) = Violated(r1) \cup {c}

NotHigher(r1, r2) == OneMoreViolated(r1, r2) => r2.score <= r1.score

\* C7: with the same probe outcomes, a page that differs from the audited one
\* only by one additional violated check condition never scores higher, in any
\* analyzer.
C7_DeductionsMonotonic ==
  pc = "done" =>
    \A pd2 \in Worse(Get(page_data)) :
      /\ NotHigher(Get(technical_results), TechnicalAnalyze(url, pd2, net))
      /\ NotHigher(Get(onpage_results), OnPageAnalyze(pd2))
      /\ NotHigher(Get(security_results), SecurityAnalyze(url, pd2, net))
      /\ PerformanceAnalyze(url, net).score <= Get(performance_results).score

\* C7 witness: an audited page sending X-Frame-Options and
\* Content-Security-Policy; without the latter exactly one more condition is
\* violated and the Security score is strictly lower.
C7_Witness ==
  /\ pc = "done"
  /\ Get(page_data).headers = {"x-frame-options", "content-security-policy"}
  /\ LET r2 == SecurityAnalyze(url, [Get(page_data) EXCEPT !.headers = {"x-frame-options"}], net)
     IN  /\ OneMoreViolated(Get(security_results), r2)
         /\ r2.score < Get(security_results).score

(***************************************************************************)
(* Crawler (src/crawler/crawler.py): the parse tree and the extraction     *)
(* rules.  The tree is the sequence of its elements in document order; an  *)
(* element keeps the attributes the rules read, and "within" names the     *)
(* nav, footer or header subtree it lies in ("" when in none).             *)
(*   src, alt, itemtype   Optional attribute values; a URL is kept as its  *)
(*                        scheme prefix, and a link element keeps the URL  *)
(*                        of its href in src                               *)
(*   href                 Optional [kind, host]: "relative" (path, query   *)
(*                        or fragment), "absolute" (scheme://host/...),    *)
(*                        "opaque" (mailto:, javascript:, tel:)            *)
(*   rel                  the set of tokens of the rel attribute           *)
(*   body                 of a script: Optional parsed JSON, None when     *)
(*                        script.string is None or json.loads raises; the  *)
(*                        parsed value is [is_list, items] where items are *)
(*                        the Optional "@type" of the object, or of each   *)
(*                        element of the list                              *)
(*   words                the lengths of the whitespace-delimited tokens   *)
(*                        of the element's own text                        *)
(***************************************************************************)
Element ==
  [tag |-> "div", within |-> "", src |-> None, type |-> "", body |-> None,
   itemscope |-> FALSE, itemtype |-> None, alt |-> None, href |-> None, rel |-> {},
   words |-> <<>>]

JsonObject(type) == [is_list |-> FALSE, items |-> <<type>>]
JsonList(types) == [is_list |-> TRUE, items |-> types]

JsonLd(body) == [Element EXCEPT !.tag = "script", !.type = "application/ld+json", !.body = body]
ScriptSrc(src) == [Element EXCEPT !.tag = "script", !.src = Some(src)]
Stylesheet(href) == [Element EXCEPT !.tag = "link", !.rel = {"stylesheet"}, !.src = Some(href)]
Microdata(itemscope, itemtype, within) ==
  [Element EXCEPT !.itemscope = itemscope, !.itemtype = itemtype, !.within = within]
Form(within) == [Element EXCEPT !.tag = "form", !.within = within]
Img(src, alt) == [Element EXCEPT !.tag = "img", !.src = src, !.alt = alt]
Anchor(href, rel) == [Element EXCEPT !.tag = "a", !.href = href, !.rel = rel]
Paragraph(words, within) == [Element EXCEPT !.tag = "p", !.words = words, !.within = within]

\* soup.find_all(...): the elements of the tree that match, in document order
FindAll(tree, Match(_)) == SelectSeq(tree, Match)

RECURSIVE Concat(_)
Concat(seqs) == IF seqs = <<>> THEN <<>> ELSE Head(seqs) \o Concat(Tail(seqs))

Map(seq, F(_)) == [i \in 1..Len(seq) |-> F(seq[i])]

\* seq[:n]
Cap(seq, n) == SubSeq(seq, 1, Min(Len(seq), n))

\* urlparse(urljoin(base_url, href)).netloc
ResolvedNetloc(base, href) ==
  CASE href.kind = "relative" -> base.host
    [] href.kind = "absolute" -> href.host
    [] OTHER -> ""

_get_internal_links(tree, base_url) ==
  LET HasHref(e) == e.tag = "a" /\ e.href # None
      Internal(e) == LET netloc == ResolvedNetloc(base_url, Get(e.href))
                     IN  netloc = base_url.host \/ netloc = ""
      Link(e) == [href |-> Get(e.href), rel |-> e.rel]
  IN  Cap(Map(SelectSeq(FindAll(tree, HasHref), Internal), Link), 100)

_get_external_links(tree, base_url) ==
  LET HasHref(e) == e.tag = "a" /\ e.href # None
      External(e) == LET netloc == ResolvedNetloc(base_url, Get(e.href))
                     IN  netloc # "" /\ netloc # base_url.host
      Link(e) == [href |-> Get(e.href), rel |-> e.rel, nofollow |-> "nofollow" \in e.rel]
  IN  Cap(Map(SelectSeq(FindAll(tree, HasHref), External), Link), 50)

\* img.get('src', '') must be non-empty; has_alt is bool(img.get('alt'))
_get_images(tree) ==
  LET HasSrc(e) == e.tag = "img" /\ e.src # None /\ Get(e.src) # ""
      Entry(e) == Image(Get(e.src), e.alt # None /\ Get(e.alt) # "")
  IN  Cap(Map(FindAll(tree, HasSrc), Entry), 100)

\* for element in soup([...]): element.decompose() -- the tree loses the
\* script, style, nav, footer and header subtrees
Stripped == {"script", "style", "nav", "footer", "header"}
Decompose(tree) ==
  LET Kept(e) == e.tag \notin Stripped /\ e.within \notin Stripped
  IN  SelectSeq(tree, Kept)

TextLimit == 10000

\* text[:TextLimit] of the tokens joined by single spaces, as token lengths
RECURSIVE Truncate(_, _, _)
Truncate(W, i, pos) ==
  IF i > Len(W) \/ pos >= TextLimit THEN <<>>
  ELSE <<Min(W[i], TextLimit - pos)>> \o Truncate(W, i + 1, pos + W[i] + 1)

\* the text of the tree once decomposed, whitespace-normalised and cut
_get_text_content(tree) ==
  LET Words(e) == e.words
      text == Concat(Map(Decompose(tree), Words))
  IN  Truncate(text, 1, 0)

\* len(self._get_text_content(soup).split())
_get_word_count(tree) == Len(_get_text_content(tree))

_get_scripts(tree) ==
  LET WithSrc(e) == e.tag = "script" /\ e.src # None
      Entry(e) == [src |-> Get(e.src)]
  IN  Map(FindAll(tree, WithSrc), Entry)

_get_stylesheets(tree) ==
  LET WithHref(e) == e.tag = "link" /\ "stylesheet" \in e.rel /\ e.src # None /\ Get(e.src) # ""
      Entry(e) == [href |-> Get(e.src)]
  IN  Map(FindAll(tree, WithHref), Entry)

IsJsonLd(e) == e.tag = "script" /\ e.type = "application/ld+json"

_has_schema(tree) ==
  \/ \E i \in 1..Len(tree) : IsJsonLd(tree[i])
  \/ \E i \in 1..Len(tree) : tree[i].itemscope

\* the "@type" values one JSON-LD block contributes; a body that does not
\* parse raises inside the try and is passed over
TypesOf(e) ==
  IF e.body = None THEN <<>>
  ELSE LET items == Get(e.body).items
           Typed(t) == t # None
       IN  Map(SelectSeq(items, Typed), Get)

_get_schema_types(tree) ==
  LET HasItemtype(e) == e.itemtype # None
      Itemtype(e) == Get(e.itemtype)
  IN  Concat(Map(FindAll(tree, IsJsonLd), TypesOf))
      \o Map(FindAll(tree, HasItemtype), Itemtype)

_get_forms(tree) ==
  LET IsForm(e) == e.tag = "form"
      Entry(e) == [action |-> "", method |-> "get"]
  IN  Map(FindAll(tree, IsForm), Entry)

(***************************************************************************)
(* Crawler.crawl step by step: the GET and the parse, then the entries of  *)
(* the data dict in the order the dict literal evaluates them.  The word   *)
(* count is the first rule that calls _get_text_content, which decomposes  *)
(* subtrees of the one tree all the rules share.                           *)
(***************************************************************************)
MaxElements == 3

Hosts == {"example.com", "www.example.com"}
PageUrl(host) == [scheme |-> "https", host |-> host, path |-> "/"]

SchemaElements ==
  {JsonLd(b) : b \in {None, Some(JsonObject(Some("Product"))), Some(JsonObject(None)),
                      Some(JsonList(<<Some("Article"), None, Some("Person")>>))}}
  \cup {Microdata(TRUE, Some("Organization"), ""), Microdata(TRUE, None, ""),
        Microdata(TRUE, Some("Organization"), "footer"), Microdata(FALSE, Some("Thing"), "")}
  \cup {ScriptSrc("https://"), Form(""), Form("header")}

ImageElements ==
  {Img(src, alt) : src \in {None, Some(""), Some("https://")},
                   alt \in {None, Some(""), Some("logo")}}

Hrefs ==
  {None, Some([kind |-> "relative", host |-> ""]), Some([kind |-> "opaque", host |-> ""])}
  \cup {Some([kind |-> "absolute", host |-> h]) : h \in Hosts \cup {"other.com"}}

LinkElements == {Anchor(h, r) : h \in Hrefs, r \in {{}, {"noopener", "nofollow"}}}

TextElements ==
  {Paragraph(w, "") : w \in {<<5>>, <<4999, 5000>>, <<9999>>, <<10000>>, <<10001>>, <<7, 3>>}}
  \cup {Paragraph(<<4, 4>>, "nav"), ScriptSrc("https://")}

\* resources the mixed-content check of the Security analyzer counts
ResourceElements ==
  {Img(Some(u), None) : u \in {"http://", "https://"}}
  \cup {ScriptSrc(u) : u \in {"http://", "https://"}}
  \cup {Stylesheet(u) : u \in {"http://", "https://"}}

Documents ==
  {[url |-> PageUrl("example.com"), site |-> [url |-> PageUrl("example.com"), markup |-> m]] :
     m \in SeqsUpTo(SchemaElements, MaxElements) \cup SeqsUpTo(ImageElements, MaxElements)
           \cup SeqsUpTo(TextElements, MaxElements)
           \cup SeqsUpTo(ResourceElements, MaxElements)}
  \cup
  {[url |-> PageUrl("example.com"), site |-> [url |-> PageUrl(final), markup |-> m]] :
     final \in Hosts, m \in SeqsUpTo(LinkElements, MaxElements)}

InitCrawl ==
  \E d \in Documents :
    /\ url = d.url
    /\ site = d.site
    /\ net = GoodNet
    /\ pc = "get"
    /\ sent = <<>>
    /\ soup = None
    /\ page_data = None
    /\ technical_results = None
    /\ onpage_results = None
    /\ performance_results = None
    /\ security_results = None
    /\ mobile_score = None
    /\ overall_score = None
    /\ response = None

\* client.get(url) followed redirects to site.url; soup = BeautifulSoup(response.text)
CrawlGet ==
  /\ pc = "get"
  /\ sent' = Append(sent, "page")
  /\ soup' = Some(site.markup)
  /\ page_data' = Some([url |-> site.url])
  /\ pc' = "links"
  /\ UNCHANGED <<url, site, net, technical_results, onpage_results, performance_results,
                 security_results, mobile_score, overall_score, response>>

\* "internal_links", "external_links", "images"
ExtractLinksAndImages ==
  /\ pc = "links"
  /\ page_data' = Some([internal_links |-> _get_internal_links(Get(soup), url),
                        external_links |-> _get_external_links(Get(soup), url),
                        images |-> _get_images(Get(soup))] @@ Get(page_data))
  /\ pc' = "content"
  /\ UNCHANGED <<url, site, net, sent, soup, technical_results, onpage_results,
                 performance_results, security_results, mobile_score, overall_score, response>>

\* "word_count", "text_content": both go through _get_text_content
ExtractContent ==
  /\ pc = "content"
  /\ soup' = Some(Decompose(Get(soup)))
  /\ page_data' = Some([word_count |-> _get_word_count(Get(soup)),
                        text_content |-> _get_text_content(Decompose(Get(soup)))]
                       @@ Get(page_data))
  /\ pc' = "scripts"
  /\ UNCHANGED <<url, site, net, sent, technical_results, onpage_results,
                 performance_results, security_results, mobile_score, overall_score, response>>

\* "scripts", "stylesheets", "has_schema", "schema_types", "forms"; then return data
ExtractTechnical ==
  /\ pc = "scripts"
  /\ page_data' = Some([scripts |-> _get_scripts(Get(soup)),
                        stylesheets |-> _get_stylesheets(Get(soup)),
                        has_schema |-> _has_schema(Get(soup)),
                        schema_types |-> _get_schema_types(Get(soup)),
                        forms |-> _get_forms(Get(soup))] @@ Get(page_data))
  /\ pc' = "crawled"
  /\ UNCHANGED <<url, site, net, sent, soup, technical_results, onpage_results,
                 performance_results, security_results, mobile_score, overall_score, response>>

NextCrawl ==
  \/ CrawlGet
  \/ ExtractLinksAndImages
  \/ ExtractContent
  \/ ExtractTechnical

SpecCrawl == InitCrawl /\ [][NextCrawl]_vars

(***************************************************************************)
(* Properties of the extraction                                            *)
(***************************************************************************)
\* C11: in the Document Model the extractor produced, hasStructuredData is true
\* iff the fetched markup has a JSON-LD script block or an element with an
\* item-scope attribute, whether or not a type could be extracted; such a page
\* passes the Technical structuredData check.
C11_HasStructuredData ==
  pc = "crawled" =>
    LET present == \E i \in 1..Len(site.markup) :
                     IsJsonLd(site.markup[i]) \/ site.markup[i].itemscope
    IN  /\ Get(page_data).has_schema <=> present
        /\ present => _check_schema(Get(page_data)).passed

\* the tokens of the cleaned visible text of the fetched markup, uncut
CleanedText(markup) ==
  LET Visible(e) == e.tag \notin Stripped /\ e.within \notin Stripped
      Words(e) == e.words
  IN  Concat(Map(SelectSeq(markup, Visible), Words))

RECURSIVE Sum(_)
Sum(W) == IF W = <<>> THEN 0 ELSE Head(W) + Sum(Tail(W))

\* the number of characters of the tokens joined by single spaces
Chars(W) == Sum(W) + Max(0, Len(W) - 1)

\* cut is the first TextLimit characters of full (a space the cut ends on is
\* not kept by the token lengths)
FirstChars(cut, full) ==
  /\ Len(cut) <= Len(full)
  /\ \A i \in 1..Len(cut) : IF i < Len(cut) THEN cut[i] = full[i] ELSE cut[i] <= full[i]
  /\ IF Chars(full) <= TextLimit THEN cut = full
     ELSE Chars(cut) \in {TextLimit - 1, TextLimit}

\* C12: wordCount is the number of whitespace-delimited tokens of the full
\* cleaned visible text, tokens past the 10,000th character included, while
\* textContent is the first 10,000 characters of that text.
C12_WordCountOfFullText ==
  pc = "crawled" =>
    /\ Get(page_data).word_count = Len(CleanedText(site.markup))
    /\ FirstChars(Get(page_data).text_content, CleanedText(site.markup))

\* C13: an extracted image has hasAlt true iff the img element carries an alt
\* attribute, the empty string included, and the On-Page imageAlt check counts
\* no image with an alt attribute as missing alt.
C13_HasAltIffAttribute ==
  pc = "crawled" =>
    LET HasSrc(e) == e.tag = "img" /\ e.src # None /\ Get(e.src) # ""
        imgs == SelectSeq(site.markup, HasSrc)
        images == Get(page_data).images
    IN  /\ Len(images) = Len(imgs)
        /\ \A i \in 1..Len(imgs) : images[i].has_alt <=> imgs[i].alt # None
        /\ (\A i \in 1..Len(imgs) : imgs[i].alt # None) => _check_images(images).passed

(***************************************************************************)
(* Boundaries of single checks                                             *)
(***************************************************************************)
TitleCodes == {"missing_title", "title_too_short", "title_too_long"}

\* the codes of the findings of a report that are among codes, in order
CodesAmong(report, codes) ==
  LET Coded(f) == "code" \in DOMAIN f /\ f.code \in codes
      Code(f) == f.code
  IN  Map(SelectSeq(report.issues, Coded), Code)

\* C14: in the On-Page report a title of 30..60 characters passes with no
\* title finding and deduction 0 (30 and 60 included); 29 characters fails with
\* title_too_short and 61 with title_too_long.
C14_TitleBoundaries ==
  \A r \in onpage_results :
    LET title == Get(page_data).title
        others == Tail(OnPageChecks(Get(page_data)))
    IN  /\ (title # None /\ Get(title) \in 30..60) =>
             /\ r.checks["title"]
             /\ CodesAmong(r, TitleCodes) = <<>>
             /\ r.score = Max(0, 100 - FailedDeductions(others, 1))
        /\ title = Some(29) =>
             ~r.checks["title"] /\ CodesAmong(r, TitleCodes) = <<"title_too_short">>
        /\ title = Some(61) =>
             ~r.checks["title"] /\ CodesAmong(r, TitleCodes) = <<"title_too_long">>

\* C14 witness: a finished audit of a page whose title has exactly 60
\* characters, the title check recorded as passed.
C14_Witness ==
  /\ pc = "done"
  /\ Get(page_data).title = Some(60)
  /\ Get(onpage_results).checks["title"]
  /\ Get(onpage_results).score = 100

\* the mixed_content findings of a Security report
MixedContentFindings(r) ==
  LET Mixed(f) == f.code = "mixed_content"
  IN  SelectSeq(r.issues, Mixed)

\* the resources of the page whose URL starts with http://
HttpResources(pd) ==
  Cardinality({i \in 1..Len(pd.images) : pd.images[i].src = "http://"})
  + Cardinality({i \in 1..Len(pd.scripts) : pd.scripts[i].src = "http://"})
  + Cardinality({i \in 1..Len(pd.stylesheets) : pd.stylesheets[i].href = "http://"})

\* C15: on an https page with at least one http:// image, script or stylesheet
\* the noMixedContent check fails with a single mixed_content finding whose
\* count is the number of such resources, and the deduction is 15 however many
\* there are.
C15_MixedContent ==
  \A r \in security_results :
    LET pd == Get(page_data)
        cs == SecurityChecks(url, pd, net)
        others == <<cs[1], cs[2], cs[4]>>
    IN  (pd.url.scheme = "https" /\ HttpResources(pd) >= 1) =>
          /\ ~r.checks["noMixedContent"]
          /\ Len(MixedContentFindings(r)) = 1
          /\ MixedContentFindings(r)[1].total = HttpResources(pd)
          /\ r.score = Max(0, 100 - (FailedDeductions(others, 1) + 15))

\* C15 witness: a finished audit of an https page with three http:// images,
\* one http:// script and one http:// stylesheet, scored 85.
C15_Witness ==
  /\ pc = "done"
  /\ Get(page_data).url.scheme = "https"
  /\ HttpResources(Get(page_data)) = MaxImages + 2
  /\ Get(security_results).score = 85

\* C16: whenever the https check of a Security report fails (the audited URL is
\* not https), the noMixedContent check passes and there is no mixed_content
\* finding, whatever the resource schemes and whatever redirect occurred.
C16_HttpNeverMixed ==
  \A r \in security_results :
    ~r.checks["https"] =>
      r.checks["noMixedContent"] /\ MixedContentFindings(r) = <<>>

\* the host of an anchor's URL resolved against the fetched page
ResolvedHost(page, href) == IF href.kind = "relative" THEN page.host ELSE href.host

\* the classification the anchors of the markup have against the page at
\* page: the internal and the external links, each in document order
Classified(markup, page) ==
  LET HasHref(e) == e.tag = "a" /\ e.href # None
      Internal(e) == ResolvedHost(page, Get(e.href)) \in {"", page.host}
      External(e) == ~Internal(e)
      Href(e) == Get(e.href)
  IN  [internal |-> Map(SelectSeq(SelectSeq(markup, HasHref), Internal), Href),
       external |-> Map(SelectSeq(SelectSeq(markup, HasHref), External), Href),
       nofollow |-> LET Nofollow(e) == "nofollow" \in e.rel
                    IN  Map(SelectSeq(SelectSeq(markup, HasHref), External), Nofollow)]

Field(seq, name) == [i \in 1..Len(seq) |-> seq[i][name]]

\* C17: every anchor with an href is classified as exactly one of internal or
\* external: internal iff its resolved URL has no host or the host of the
\* fetched page, external otherwise; each list keeps document order, and an
\* external link's nofollow is true iff its rel contains "nofollow".
C17_LinkPartition ==
  pc = "crawled" =>
    LET c == Classified(site.markup, site.url)
    IN  /\ Field(Get(page_data).internal_links, "href") = c.internal
        /\ Field(Get(page_data).external_links, "href") = c.external
        /\ Field(Get(page_data).external_links, "nofollow") = c.nofollow

\* what one element of the markup contributes to schemaTypes: a JSON-LD block
\* the "@type" of its object or of each element of its list (nothing when
\* its body is no valid JSON), an element with an item-type that value
Contribution(e) ==
  IF e.tag = "script" /\ e.type = "application/ld+json"
  THEN IF e.body = None THEN <<>>
       ELSE Concat([i \in 1..Len(Get(e.body).items) |->
                      IF Get(e.body).items[i] = None THEN <<>>
                      ELSE <<Get(Get(e.body).items[i])>>])
  ELSE IF e.itemtype # None THEN <<Get(e.itemtype)>>
  ELSE <<>>

\* C18: a JSON-LD block whose body is not valid JSON contributes no schema type
\* and does not make the extraction fail: a Document Model is produced, and
\* schemaTypes holds what the other JSON-LD blocks and the item-type values of
\* the page contribute, in document order.
C18_InvalidJsonLdSkipped ==
  pc = "crawled" =>
    /\ "error" \notin DOMAIN Get(page_data)
    /\ Get(page_data).schema_types = Concat(Map(site.markup, Contribution))

\* C20: the scripts list, hasStructuredData, schemaTypes and the forms summary
\* have the value their rule gives on the fetched markup, whether the rule runs
\* before or after the word-count / text-content rule.
C20_ExtractionOrderIndependent ==
  pc = "crawled" =>
    /\ Get(page_data).scripts = _get_scripts(site.markup)
    /\ Get(page_data).has_schema = _has_schema(site.markup)
    /\ Get(page_data).schema_types = _get_schema_types(site.markup)
    /\ Get(page_data).forms = _get_forms(site.markup)

(***************************************************************************)
(* analyze_url with internal faults: any step after the crawl may raise,   *)
(* and the handler's "except Exception" turns what was raised into a 500.  *)
(***************************************************************************)
InitFault ==
  \/ \E s \in FetchCases : Setup(s)
  \/ \E s \in ProbeFailures : Setup(s)
  \/ \E s \in MobilePages : Setup(s)

\* a fault that answers as a failed crawl does
FaultAsCrawlFailure ==
  /\ \E k \in 1..Len(Pending) : pc = Pending[k]
  /\ response' = Some([status_code |-> 400, detail |-> "traceback"])
  /\ pc' = "failed"
  /\ UNCHANGED <<url, site, net, sent, soup, page_data, technical_results, onpage_results,
                 performance_results, security_results, mobile_score, overall_score>>

\* except Exception as e: ... raise HTTPException(status_code=500, detail=error_details)
Fault ==
  /\ \E k \in 1..Len(Pending) : pc = Pending[k]
  /\ response' = Some([status_code |-> 500, detail |-> "traceback"])
  /\ pc' = "failed"
  /\ UNCHANGED <<url, site, net, sent, soup, page_data, technical_results, onpage_results,
                 performance_results, security_results, mobile_score, overall_score>>

NextFault ==
  \/ Next
  \/ Fault

SpecFault == InitFault /\ [][NextFault]_vars

\* C19: an answer is given only when the run has ended; a run that ended in
\* failure answers 400 with the cause when the page fetch failed, and 500 when
\* the fetch succeeded and a later step raised; only a run without failure
\* answers 200 with the AuditResult.
C19_FailureKinds ==
  /\ response # None <=> pc \in {"failed", "done"}
  /\ pc = "failed" =>
       IF "error" \in DOMAIN Get(page_data)
       THEN /\ net.fetch # "ok"
            /\ Get(response).status_code = 400
            /\ Get(response).detail = Get(page_data).error
            /\ Get(page_data).error = net.fetch
       ELSE /\ net.fetch = "ok"
            /\ Get(response).status_code = 500
  /\ pc = "done" =>
       /\ net.fetch = "ok"
       /\ Get(response).status_code = 200
       /\ "body" \in DOMAIN Get(response)
  /\ net.fetch # "ok" => \A r \in response : r.status_code = 400

\* C19 witness: a run whose fetch succeeded and whose Mobile scoring raised,
\* after probes had failed, answered 500.
C19_Witness ==
  /\ pc = "failed"
  /\ net.fetch = "ok"
  /\ net.robots = "error"
  /\ security_results # None /\ mobile_score = None
  /\ Get(response).status_code = 500

(***************************************************************************)
(* Extraction followed by the Security analyzer's mixed-content check      *)
(***************************************************************************)
HasHttp(markup, tag) ==
  \E i \in 1..Len(markup) : markup[i].tag = tag /\ markup[i].src = Some("http://")

\* C21: for an https page whose markup holds a script element with an
\* http:// src, the mixed-content check applied to the extracted page data
\* fails with the finding mixed_content and deduction 15.
C21_HttpScriptIsMixedContent ==
  (pc = "crawled" /\ site.url.scheme = "https" /\ HasHttp(site.markup, "script")) =>
    LET r == _check_mixed_content(Get(page_data))
    IN  /\ ~r.passed
        /\ r.deduction = 15
        /\ r.issue.code = "mixed_content"

(***************************************************************************)
(* Deductions of the two Technical probes                                  *)
(***************************************************************************)
Deducted(r) == IF r.passed THEN 0 ELSE r.deduction

\* one of the two sitemap URLs answered 200 with an XML content-type
SitemapSatisfied ==
  net.sitemap_client = "ok" /\ \E i \in 1..Len(SitemapUrls) : net.sitemap[i] = "200xml"

\* C22: robotsTxt deducts 5 when robots.txt answers with a status other than
\* 200 and 3 when the request errors; sitemap deducts 5 when it is not
\* satisfied and an endpoint answered, and 3 when the probe errors, both
\* sitemap requests erroring included.
C22_ProbeDeductions ==
  \A r \in technical_results :
    LET cs == TechnicalChecks(url, Get(page_data), net)
        rest == FailedDeductions(cs, 1) - Deducted(cs[3].r) - Deducted(cs[4].r)
        robots == CASE net.robots = "200" -> 0
                    [] net.robots = "error" -> 3
                    [] OTHER -> 5
        sitemap == CASE SitemapSatisfied -> 0
                     [] SitemapProbeErrored /\ ~SitemapSatisfied -> 3
                     [] OTHER -> 5
    IN  /\ cs[3].name = "robotsTxt" /\ cs[4].name = "sitemap"
        /\ r.checks["robotsTxt"] = (net.robots = "200")
        /\ r.checks["sitemap"] = SitemapSatisfied
        /\ r.score = Max(0, 100 - rest - robots - sitemap)

(***************************************************************************)
(* The canonical check                                                     *)
(***************************************************************************)
\* the page data with a canonical URL whose path is the requested path
MatchingCanonical(pd) == [pd EXCEPT !.canonical = Some([path |-> url.path])]

\* C23: checks.canonical is true exactly when a canonical URL is present; with
\* a canonical present, matching or not, the Technical score is that of the
\* page with a matching canonical and no missing_canonical finding is made;
\* with none, missing_canonical is reported and 15 more is deducted.
C23_CanonicalMismatchPasses ==
  \A r \in technical_results :
    LET pd == Get(page_data)
        matching == FailedDeductions(TechnicalChecks(url, MatchingCanonical(pd), net), 1)
        missing == {i \in 1..Len(r.issues) : /\ "code" \in DOMAIN r.issues[i]
                                              /\ r.issues[i].code = "missing_canonical"}
    IN  /\ r.checks["canonical"] = (pd.canonical # None)
        /\ pd.canonical # None =>
             /\ r.score = Max(0, 100 - matching)
             /\ r.score = TechnicalAnalyze(url, MatchingCanonical(pd), net).score
             /\ missing = {}
        /\ pd.canonical = None =>
             /\ r.score = Max(0, 100 - matching - 15)
             /\ missing = {1}

\* C23 witness: a finished audit of "/" whose canonical path is "/other", with
\* the canonical check passed and a Technical score above 0.
C23_Witness ==
  /\ pc = "done"
  /\ url.path = "/"
  /\ Get(page_data).canonical = Some([path |-> "/other"])
  /\ Get(technical_results).checks["canonical"]
  /\ Get(technical_results).score > 0
  /\ Get(technical_results).score = TechnicalAnalyze(url, MatchingCanonical(Get(page_data)), net).score

(***************************************************************************)
(* The securityHeaders check                                               *)
(***************************************************************************)
\* the response carries the header, however its name is capitalised
HasHeader(pd, name) == \E k \in pd.headers : Lower(k) = name

B(cond) == IF cond THEN 1 ELSE 0

\* C24: the securityHeaders deduction is 2 for a missing
\* x-content-type-options, 3 for x-frame-options and content-security-policy
\* both missing, 5 for a missing strict-transport-security and 3 for a missing
\* content-security-policy, names matched case-insensitively; one finding is
\* made per condition and the check passes iff none holds.
C24_SecurityHeaderDeductions ==
  \A r \in security_results :
    LET pd == Get(page_data)
        cs == SecurityChecks(url, pd, net)
        rest == FailedDeductions(cs, 1) - Deducted(cs[2].r)
        xcto == B(~HasHeader(pd, "x-content-type-options"))
        xfo == B(~HasHeader(pd, "x-frame-options") /\ ~HasHeader(pd, "content-security-policy"))
        hsts == B(~HasHeader(pd, "strict-transport-security"))
        csp == B(~HasHeader(pd, "content-security-policy"))
        deduction == 2 * xcto + 3 * xfo + 5 * hsts + 3 * csp
        Count(code) == Cardinality({i \in 1..Len(r.issues) : r.issues[i].code = code})
    IN  /\ cs[2].name = "securityHeaders"
        /\ deduction <= 13
        /\ r.score = Max(0, 100 - rest - deduction)
        /\ r.checks["securityHeaders"] = (xcto + xfo + hsts + csp = 0)
        /\ Count("missing_x_content_type") = xcto
        /\ Count("missing_x_frame_options") = xfo
        /\ Count("missing_hsts") = hsts
        /\ Count("missing_csp") = csp

\* C24 witness: a finished audit whose response spelled its two headers in
\* mixed case: two conditions hold, 5 is deducted, two findings are made.
C24_Witness ==
  /\ pc = "done"
  /\ Get(page_data).headers = {"X-Frame-Options", "Strict-Transport-Security"}
  /\ ~Get(security_results).checks["securityHeaders"]
  /\ Get(security_results).checks["https"]
  /\ Get(security_results).score = 95
  /\ Len(Get(security_results).issues) = 2

(***************************************************************************)
(* The noSensitivePaths check                                              *)
(***************************************************************************)
\* the indices of the sensitive paths whose GET returned status 200
Exposed ==
  IF net.sensitive_client = "error" THEN {}
  ELSE {i \in 1..Len(sensitive_paths) : net.sensitive[i] = "200"}

\* C25: noSensitivePaths deducts 10 for each of the 6 sensitive paths whose
\* GET returned 200, reports one exposed_sensitive_file finding per such path
\* in list order, and passes iff there is none; a 3xx answer or an error does
\* not count.
C25_SensitivePaths ==
  \A r \in security_results :
    LET cs == SecurityChecks(url, Get(page_data), net)
        rest == FailedDeductions(cs, 1) - Deducted(cs[4].r)
        IsExposure(f) == f.code = "exposed_sensitive_file"
        found == SelectSeq(r.issues, IsExposure)
    IN  /\ Len(sensitive_paths) = 6
        /\ cs[4].name = "noSensitivePaths"
        /\ r.score = Max(0, 100 - rest - 10 * Cardinality(Exposed))
        /\ r.checks["noSensitivePaths"] = (Exposed = {})
        /\ Len(found) = Cardinality(Exposed)
        /\ \A k \in 1..Len(found) :
             /\ \E i \in Exposed : found[k].path = sensitive_paths[i]
             /\ \A j \in 1..(k - 1) :
                  \E a, b \in Exposed :
                    /\ a < b
                    /\ found[j].path = sensitive_paths[a]
                    /\ found[k].path = sensitive_paths[b]

\* C25 witness: a finished https audit in which two paths answered 200, one
\* was redirected and one request errored: 20 is deducted for two findings.
C25_Witness ==
  /\ pc = "done"
  /\ url.scheme = "https"
  /\ net.sensitive_client = "ok"
  /\ Cardinality(Exposed) = 2
  /\ \E i, j \in 1..Len(sensitive_paths) : net.sensitive[i] = "301" /\ net.sensitive[j] = "error"
  /\ ~Get(security_results).checks["noSensitivePaths"]
  /\ Get(security_results).checks["securityHeaders"]
  /\ Get(security_results).score = 80

(***************************************************************************)
(* Absent and short titles                                                 *)
(***************************************************************************)
\* C26: the On-Page title check reports missing_title and deducts 20 only
\* for an absent title; every present title shorter than 30 characters, the
\* one of length 0 included, is reported as title_too_short and deducts 5.
C26_ShortTitles ==
  \A r \in onpage_results :
    LET title == Get(page_data).title
        others == FailedDeductions(Tail(OnPageChecks(Get(page_data))), 1)
    IN  /\ ("missing_title" \in {r.issues[i].code : i \in 1..Len(r.issues)}) <=> title = None
        /\ title = None =>
             /\ CodesAmong(r, TitleCodes) = <<"missing_title">>
             /\ r.score = Max(0, 100 - others - 20)
        /\ (title # None /\ Get(title) < 30) =>
             /\ CodesAmong(r, TitleCodes) = <<"title_too_short">>
             /\ r.score = Max(0, 100 - others - 5)

(***************************************************************************)
(* The Mobile score                                                        *)
(***************************************************************************)
\* C27: the Mobile score is max(0, 100 - 20*[no viewport meta]
\* - min(2*touchTargets, 15)*[touchTargets > 0] - 10*[smallTextCount > 5]
\* - 15*[horizontal scroll]); it lies in 40..100 and is the same whatever the
\* Performance report is.
C27_MobileScore ==
  \A m \in mobile_score :
    LET pd == Get(page_data)
        viewport == pd.viewport_meta
        touchTargets == GetOr(pd, "small_touch_targets", 0)
        smallTextCount == GetOr(pd, "small_text_count", 0)
        scroll == GetOr(pd, "horizontal_scroll", FALSE)
    IN  /\ m.score = Max(0, 100 - 20 * B(~viewport)
                               - Min(2 * touchTargets, 15) * B(touchTargets > 0)
                               - 10 * B(smallTextCount > 5)
                               - 15 * B(scroll))
        /\ m.score \in 40..100
        /\ \A p \in {_get_fallback_analysis(url), PerformanceOk(GoodData), PerformanceOk(BadData)} :
             calculate_mobile_score(pd, p) = m

\* C27 witness: a finished audit of a page with no viewport meta, more touch
\* targets than the cap covers, small text and horizontal scroll: score 40,
\* with a Performance score below 50.
C27_Witness ==
  /\ pc = "done"
  /\ ~Get(page_data).viewport_meta
  /\ GetOr(Get(page_data), "small_touch_targets", 0) * 2 > 15
  /\ GetOr(Get(page_data), "small_text_count", 0) = 6
  /\ GetOr(Get(page_data), "horizontal_scroll", FALSE)
  /\ Get(performance_results).score < 50
  /\ Get(mobile_score).score = 40

(***************************************************************************)
(* The Performance score                                                   *)
(***************************************************************************)
\* the metrics provider answered 200 with a body the analysis reads to the end
ProviderSucceeded ==
  /\ net.api_key
  /\ net.metrics.outcome = "ok"
  /\ ~Raises(net.metrics.data)

\* C28: when the metrics provider succeeds with a numeric performance
\* sub-score, the Performance score is that sub-score times 100 rounded to
\* the nearest integer (a half upwards), and it is the score of the same
\* sub-score with every advisory check passing.
C28_PerformanceScoreRounded ==
  \A r \in performance_results :
    LET data == net.metrics.data
    IN  (ProviderSucceeded /\ data.score # None /\ Get(data.score) # JsonNull) =>
          /\ r.score = (Get(data.score) * 100 + ScoreDenominator \div 2) \div ScoreDenominator
          /\ r.score = PerformanceOk([GoodData EXCEPT !.score = data.score]).score

(***************************************************************************)
(* Order of the steps of one audit                                         *)
(***************************************************************************)
\* C29: the aggregation starts only when the four reports and the Mobile
\* score of the run exist, the Mobile scoring starts only when the
\* Performance report exists, and the overall score is the aggregate of
\* exactly the five scores the run computed from its own page and probes.
C29_AggregationWaits ==
  LET five == <<technical_results, onpage_results, performance_results, security_results,
                mobile_score>>
  IN  /\ (pc = "overall" \/ overall_score # None) => \A i \in 1..5 : five[i] # None
      /\ (pc = "mobile" \/ mobile_score # None) => performance_results # None
      /\ \A t \in technical_results : t = TechnicalAnalyze(url, Get(page_data), net)
      /\ \A o \in onpage_results : o = OnPageAnalyze(Get(page_data))
      /\ \A p \in performance_results : p = PerformanceAnalyze(url, net)
      /\ \A s \in security_results : s = SecurityAnalyze(url, Get(page_data), net)
      /\ \A m \in mobile_score :
           m = calculate_mobile_score(Get(page_data), Get(performance_results))
      /\ \A v \in overall_score :
           v = calculate_overall_score(Get(five[1]).score, Get(five[2]).score,
                                       Get(five[3]).score, Get(five[4]).score,
                                       Get(five[5]).score)

\* C29 witness: an audit that has just aggregated five scores that are not
\* all the same, and has not answered yet.
C29_Witness ==
  /\ pc = "return"
  /\ overall_score # None
  /\ response = None
  /\ Get(mobile_score).score < 100
  /\ Get(mobile_score).score # Get(technical_results).score
  /\ Get(performance_results).score # Get(security_results).score

(***************************************************************************)
(* The requests of one audit                                               *)
(***************************************************************************)
\* everything an audit may request
Targets ==
  {"page", "/robots.txt", "pagespeed"}
  \cup {SitemapUrls[i] : i \in 1..Len(SitemapUrls)}
  \cup {sensitive_paths[i] : i \in 1..Len(sensitive_paths)}

\* C30: in one audit every request goes to the page URL, robots.txt, one of
\* the two sitemap URLs, one of the 6 sensitive paths or the metrics
\* provider, none of them is requested twice whatever it answered, and the
\* second sitemap URL is requested only if the first did not satisfy the
\* check.
C30_NoRetries ==
  /\ \A i \in 1..Len(sent) : sent[i] \in Targets
  /\ \A i, j \in 1..Len(sent) : sent[i] = sent[j] => i = j
  /\ Cardinality(Targets) = 11
  /\ (\E i \in 1..Len(sent) : sent[i] = SitemapUrls[2]) =>
       /\ net.sitemap[1] # "200xml"
       /\ \E i \in 1..Len(sent) : sent[i] = SitemapUrls[1]

\* C30 witness: a finished audit in which robots.txt, both sitemap URLs, all
\* sensitive paths and the metrics provider errored: 11 requests, each once.
C30_Witness ==
  /\ pc = "done"
  /\ net.robots = "error"
  /\ net.sitemap = <<"error", "error">>
  /\ \A i \in 1..Len(sensitive_paths) : net.sensitive[i] = "error"
  /\ net.metrics.outcome = "error"
  /\ Len(sent) = 11

====
